---- MODULE Spec2Model ----
(***************************************************************************)
(* A model of planviz's Tauri backend: the PTY session manager (pty.rs),   *)
(* the agent adapter built on it (agent.rs) and the mock chat backend      *)
(* (chat.rs).  Strings are sequences of one-character strings; events sent *)
(* to the frontend are appended to logs.                                   *)
(***************************************************************************)
EXTENDS Integers, Sequences, FiniteSets, TLC

\* ------------------------------------------------------------------ bounds
\* PtySession objects ever constructed
MaxObjs == 2
\* child processes ever started
MaxSpawns == 2
\* the pty-output / pty-exit log keeps the most recent events, this many
MaxPtyEvents == 2
\* a PTY accepts a write while fewer bytes than this were delivered to it
MaxWritten == 1
\* the latest millisecond the system clock reads
MaxTime == 0
\* the chat-stream log keeps the most recent events, this many
MaxChatEvents == 2
\* the agent-status log keeps the most recent events, this many
MaxStatusEvents == 1
\* process_output is accepted while the buffer is shorter than this
MaxBuffer == 1
\* invocations of send_chat_message ever started
MaxInvocations == 1
\* the longest text handed to strip_ansi_codes
MaxStripLen == 4
\* threads that call into the managers at the same time
MaxThreads == 2
\* reads of the PTY masters that return data
MaxReads == 3

\* ------------------------------------------------------------- constants
DEFAULT_ROWS == 24
DEFAULT_COLS == 80

\* ------------------------------------------------------------ input sets
ClaudeCode == "ClaudeCode"
Codex == "Codex"
OpenCode == "OpenCode"
AgentType == {ClaudeCode, Codex, OpenCode}

\* the name of an agent kind inside a generated session id
KindName(agent_type) ==
    CASE agent_type = ClaudeCode -> "claude"
      [] agent_type = Codex -> "codex"
      [] agent_type = OpenCode -> "opencode"

\* format!("agent_{}_{}", kind, millis)
AgentSessionId(agent_type, millis) ==
    "agent_" \o KindName(agent_type) \o "_" \o ToString(millis)

\* ids the frontend passes to the pty_* commands
PtyIds == {"s1", "s2"}
\* what SystemTime::now() can read, in milliseconds since the epoch (the
\* system clock is not monotonic: two readings can be equal or go back)
Times == 0..MaxTime
\* ids agent_connect can generate
AgentIds == {AgentSessionId(k, t) : k \in {ClaudeCode, Codex}, t \in Times}
\* every key the registry can hold
SessionIds == PtyIds \cup AgentIds

NL == "\n"
\* the escape character, 0x1b
ESC == "ESC"
LowerLetters ==
    <<"a", "b", "c", "d", "e", "f", "g", "h", "i", "j", "k", "l", "m",
      "n", "o", "p", "q", "r", "s", "t", "u", "v", "w", "x", "y", "z">>
UpperLetters ==
    <<"A", "B", "C", "D", "E", "F", "G", "H", "I", "J", "K", "L", "M",
      "N", "O", "P", "Q", "R", "S", "T", "U", "V", "W", "X", "Y", "Z">>
\* char::is_ascii_alphabetic
AsciiLetters == {LowerLetters[i] : i \in 1..26} \cup {UpperLetters[i] : i \in 1..26}
\* char::is_ascii_digit
Digits == {"0", "1", "2", "3", "4", "5", "6", "7", "8", "9"}
\* char::is_whitespace
Whitespace == {" ", NL, "\t"}
\* what the user sends with agent_send_message
Messages == {<<"h">>}
\* raw PTY chunks the frontend hands to agent_process_output
RawChunks == {<<"a">>, <<ESC, "[", "m">>}
\* working directories
Cwds == {"/tmp"}
\* what a caller writes with pty_write
WriteData == {<<"x">>}
\* geometries a caller asks for with pty_resize
Sizes == {<<DEFAULT_ROWS, DEFAULT_COLS>>, <<DEFAULT_ROWS + 1, DEFAULT_COLS>>}
\* how a write of data can end: write_all fails at once (0 bytes went out),
\* write_all succeeds and flush fails (all went out), or both succeed
Delivered(data) == {0, Len(data), Len(data) + 1}
\* raw exit statuses of a child process
ExitCodes == {0, 2}
\* the threads commands run on (the async runtime's workers, the main thread)
Threads == 1..MaxThreads
\* a thread that is inside no call
Idle == [op |-> "none", pc |-> "idle"]

\* ----------------------------------------------------------------- state
VARIABLES
    sessions,         \* PtyManager.sessions: id -> index into objs, 0 when absent
    objs,             \* every PtySession constructed so far: [id, written]
    running,          \* running[o]: the Arc<AtomicBool> of PtySession o
    spawned,          \* one record per started child: its session, child, reader
    ptyLog,           \* "pty-output" / "pty-exit" events emitted, in order
    current_session,  \* AgentManager.current_session: <<>> or <<AgentSession>>
    streaming,        \* AgentManager.streaming
    output_buffer,    \* AgentManager.output_buffer
    chatLog,          \* "chat-stream" events emitted, in order
    statusLog,        \* "agent-status" events emitted, in order
    chat,             \* the invocations of send_chat_message, in order of call
    strip_input,      \* the text a caller hands to strip_ansi_codes
    strip_result,     \* <<>> or <<what strip_ansi_codes returned for it>>
    lock,             \* the thread that holds PtyManager.sessions' mutex, 0 when free
    calls,            \* calls[t]: the PtyManager call thread t is inside, step by step
    tasks,            \* tasks[t]: the agent command thread t is inside, step by step
    readLog,          \* the reads of the PTY masters that returned data, in order
    history_dir,      \* the names of the files in the plan's .plan-history directory
    layout_file,      \* {plan}.layout.json: <<>> or <<LayoutFile>>
    merge_result      \* <<>> or <<what the last merge_layout returned>>

ptyVars == <<sessions, objs, running, spawned, ptyLog>>
agentVars == <<current_session, streaming, output_buffer, chatLog, statusLog>>
vars == <<sessions, objs, running, spawned, ptyLog, current_session, streaming,
          output_buffer, chatLog, statusLog, chat, strip_input, strip_result,
          lock, calls, tasks, readLog, history_dir, layout_file, merge_result>>
\* the plan's layout on disk, its snapshots, and the last merge
fileVars == <<history_dir, layout_file, merge_result>>
\* what the pure functions and the file commands work on
pureVars == <<strip_input, strip_result, fileVars>>
\* what the calls that run in several steps are at
threadVars == <<lock, calls, tasks, readLog>>

\* The handlers are functions from a state (a record of the variables the
\* managers own) and the call's inputs to the state after the call and the
\* value returned: [st, res, val].  res is "Ok" or the kind of the error.
State ==
    [sessions |-> sessions, objs |-> objs, running |-> running,
     spawned |-> spawned, ptyLog |-> ptyLog,
     current_session |-> current_session, streaming |-> streaming,
     output_buffer |-> output_buffer, chatLog |-> chatLog,
     statusLog |-> statusLog]

\* the last n events of a log
Recent(log, n) ==
    IF Len(log) <= n THEN log ELSE SubSeq(log, Len(log) - n + 1, Len(log))

\* the call's effect becomes the next state; the logs keep their recent events
Becomes(st) ==
    /\ sessions' = st.sessions
    /\ objs' = st.objs
    /\ running' = st.running
    /\ spawned' = st.spawned
    /\ ptyLog' = Recent(st.ptyLog, MaxPtyEvents)
    /\ current_session' = st.current_session
    /\ streaming' = st.streaming
    /\ output_buffer' = st.output_buffer
    /\ chatLog' = Recent(st.chatLog, MaxChatEvents)
    /\ statusLog' = Recent(st.statusLog, MaxStatusEvents)
    /\ UNCHANGED <<chat, pureVars, threadVars>>

Return(st, res, val) == [st |-> st, res |-> res, val |-> val]
Unit == <<>>

Objs == 1..Len(objs)
Spawns == 1..Len(spawned)

\* o was constructed and is no longer the value of its key: it was dropped
Dropped(o) == sessions[objs[o].id] # o

\* reader threads not yet finished, and children not yet exited, of session o
LiveReaders(o) ==
    {k \in Spawns : spawned[k].obj = o
                    /\ spawned[k].pc \in {"check", "read", "emit", "store", "wait"}}
LiveChildren(o) == {k \in Spawns : spawned[k].obj = o /\ spawned[k].child = "alive"}

\* ------------------------------------------------------------ PtySession
\* PtySession::new: a fresh PTY (opened at DEFAULT_ROWS x DEFAULT_COLS; the
\* geometry lives in the OS, not in the struct), nothing written, not running
PtySession_new(id) == [id |-> id, written |-> <<>>]

\* PtySession::spawn on session o.  outcome: the child cannot be started; it
\* starts but the reader cannot be cloned; or child and reader thread start
spawn(st, o, outcome) ==
    IF outcome = "spawn_failed" THEN Return(st, "SpawnFailed", Unit)
    ELSE Return(
           [st EXCEPT
              !.running[o] = TRUE,
              !.spawned = Append(@,
                 [obj |-> o, session_id |-> st.objs[o].id, child |-> "alive",
                  pc |-> IF outcome = "ok" THEN "check" ELSE "none"])],
           IF outcome = "ok" THEN "Ok" ELSE "ReaderFailed", Unit)

\* PtySession::write: write_all then flush.  delivered = Len(data) + 1 stands
\* for both succeeding; otherwise that many bytes went out before the error
write(st, o, data, delivered) ==
    Return([st EXCEPT !.objs[o].written =
                @ \o SubSeq(data, 1, IF delivered > Len(data) THEN Len(data)
                                     ELSE delivered)],
           IF delivered = Len(data) + 1 THEN "Ok" ELSE "WriteFailed", Unit)

\* PtySession::resize: the new geometry goes to the OS PTY; no field of the
\* session changes
resize(st, o, size, resized) ==
    Return(st, IF resized THEN "Ok" ELSE "ResizeFailed", Unit)

\* PtySession::is_running
is_running(st, o) == st.running[o]

\* PtySession::stop
stop(st, o) == [st EXCEPT !.running[o] = FALSE]

\* ------------------------------------------------------------ PtyManager
\* create_session: openpty may fail; otherwise the new session is inserted
\* under id, replacing (and dropping) whatever was registered there
create_session(st, id, opened) ==
    IF ~opened THEN Return(st, "PtyOpenFailed", Unit)
    ELSE Return([st EXCEPT !.objs = Append(@, PtySession_new(id)),
                           !.running = Append(@, FALSE),
                           !.sessions[id] = Len(st.objs) + 1],
                "Ok", Unit)

\* spawn_in_session
spawn_in_session(st, id, outcome) ==
    IF st.sessions[id] = 0 THEN Return(st, "SessionNotFound", id)
    ELSE spawn(st, st.sessions[id], outcome)

\* a write_to_session that drops the data silently when the id is unknown
write_to_session_silent(st, id, data, delivered) ==
    IF st.sessions[id] = 0 THEN Return(st, "Ok", Unit)
    ELSE write(st, st.sessions[id], data, delivered)

\* write_to_session
write_to_session(st, id, data, delivered) ==
    IF st.sessions[id] = 0 THEN Return(st, "SessionNotFound", id)
    ELSE write(st, st.sessions[id], data, delivered)

\* resize_session
resize_session(st, id, size, resized) ==
    IF st.sessions[id] = 0 THEN Return(st, "SessionNotFound", id)
    ELSE resize(st, st.sessions[id], size, resized)

\* a stop_session that fails on an unknown id and forgets a stopped session
stop_session_strict(st, id) ==
    IF st.sessions[id] = 0 THEN Return(st, "SessionNotFound", id)
    ELSE Return([stop(st, st.sessions[id]) EXCEPT !.sessions[id] = 0], "Ok", Unit)

\* stop_session: stops the session if there is one; Ok either way
stop_session(st, id) ==
    Return(IF st.sessions[id] # 0 THEN stop(st, st.sessions[id]) ELSE st,
           "Ok", Unit)

\* a remove_session that forgets the session without stopping it
remove_session_unstopped(st, id) ==
    Return([st EXCEPT !.sessions[id] = 0], "Ok", Unit)

\* a remove_session that fails on an id that is not registered
remove_session_strict(st, id) ==
    IF st.sessions[id] = 0 THEN Return(st, "SessionNotFound", id)
    ELSE Return([stop(st, st.sessions[id]) EXCEPT !.sessions[id] = 0], "Ok", Unit)


\* remove_session: stops the session if there is one, then removes the key
remove_session(st, id) ==
    LET stopped == IF st.sessions[id] # 0 THEN stop(st, st.sessions[id]) ELSE st
    IN Return([stopped EXCEPT !.sessions[id] = 0], "Ok", Unit)

\* is_session_running: the flag, false for an unknown id
is_session_running(st, id) ==
    Return(st, "Ok",
           IF st.sessions[id] # 0 THEN is_running(st, st.sessions[id]) ELSE FALSE)

\* --------------------------------------------------- the pty_* commands
pty_create_session(id, opened) ==
    /\ opened => Len(objs) < MaxObjs
    /\ Becomes(create_session(State, id, opened).st)

pty_spawn(id, outcome) ==
    /\ Len(spawned) < MaxSpawns
    /\ Becomes(spawn_in_session(State, id, outcome).st)

pty_write(id, data, delivered) ==
    /\ sessions[id] # 0 => Len(objs[sessions[id]].written) < MaxWritten
    /\ Becomes(write_to_session(State, id, data, delivered).st)

pty_resize(id, size, resized) ==
    /\ Becomes(resize_session(State, id, size, resized).st)

pty_stop(id) ==
    /\ Becomes(stop_session(State, id).st)

pty_remove(id) ==
    /\ Becomes(remove_session(State, id).st)

pty_is_running(id) ==
    /\ Becomes(is_session_running(State, id).st)

\* ---------------------------------------------------------- reader thread
PtyOutputEvent(k) ==
    [type |-> "pty-output", session_id |-> spawned[k].session_id,
     data |-> spawned[k].obj, exit_code |-> -1, status |-> -1, by |-> k]

\* Some(0) on success, Some(1) on any other status, None (-1) when wait failed
ExitCodeOf(waited, code) == IF ~waited THEN -1 ELSE IF code = 0 THEN 0 ELSE 1

PtyExitEvent(k, waited, code) ==
    [type |-> "pty-exit", session_id |-> spawned[k].session_id,
     data |-> 0, exit_code |-> ExitCodeOf(waited, code),
     status |-> IF waited THEN code ELSE -1, by |-> k]

\* a loop head that issues the next read whatever the flag says
reader_check_deaf(k) ==
    /\ spawned[k].pc = "check"
    /\ spawned' = [spawned EXCEPT ![k].pc = "read"]
    /\ UNCHANGED <<sessions, objs, running, ptyLog, agentVars, chat, pureVars, threadVars>>


\* the loop head: leave the loop when the flag is false, else issue a read
reader_check(k) ==
    /\ spawned[k].pc = "check"
    /\ spawned' = [spawned EXCEPT ![k].pc =
                      IF running[spawned[k].obj] THEN "read" ELSE "store"]
    /\ UNCHANGED <<sessions, objs, running, ptyLog, agentVars, chat, pureVars, threadVars>>

\* the read returns n > 0 bytes: one pty-output event (an emit that fails is
\* only logged), then back to the loop head
reader_read_data(k, emitted) ==
    /\ spawned[k].pc = "read"
    /\ ptyLog' = IF emitted
                 THEN Recent(Append(ptyLog, PtyOutputEvent(k)), MaxPtyEvents)
                 ELSE ptyLog
    /\ spawned' = [spawned EXCEPT ![k].pc = "check"]
    /\ UNCHANGED <<sessions, objs, running, agentVars, chat, pureVars, threadVars>>

\* the read returns 0 bytes or an error: the loop ends
reader_read_end(k) ==
    /\ spawned[k].pc = "read"
    /\ spawned' = [spawned EXCEPT ![k].pc = "store"]
    /\ UNCHANGED <<sessions, objs, running, ptyLog, agentVars, chat, pureVars, threadVars>>

\* a reader that leaves the flag as it is after the loop
reader_store_skipped(k) ==
    /\ spawned[k].pc = "store"
    /\ spawned' = [spawned EXCEPT ![k].pc = "wait"]
    /\ UNCHANGED <<sessions, objs, running, ptyLog, agentVars, chat, pureVars, threadVars>>

\* after the loop: running.store(false)
reader_store(k) ==
    /\ spawned[k].pc = "store"
    /\ running' = [running EXCEPT ![spawned[k].obj] = FALSE]
    /\ spawned' = [spawned EXCEPT ![k].pc = "wait"]
    /\ UNCHANGED <<sessions, objs, ptyLog, agentVars, chat, pureVars, threadVars>>

\* a reader that announces the exit and stays where it is, to announce it again
reader_exit_again(k, waited, code, emitted) ==
    /\ spawned[k].pc = "wait"
    /\ waited => spawned[k].child = "exited"
    /\ ptyLog' = IF emitted
                 THEN Recent(Append(ptyLog, PtyExitEvent(k, waited, code)),
                             MaxPtyEvents)
                 ELSE ptyLog
    /\ UNCHANGED <<sessions, objs, running, spawned, agentVars, chat, pureVars, threadVars>>

\* child.wait() returns (the child's status once it has exited, or an error),
\* then the pty-exit event is emitted; status is what wait() reported
reader_exit(k, waited, code, emitted) ==
    /\ spawned[k].pc = "wait"
    /\ waited => spawned[k].child = "exited"
    /\ ptyLog' = IF emitted
                 THEN Recent(Append(ptyLog, PtyExitEvent(k, waited, code)),
                             MaxPtyEvents)
                 ELSE ptyLog
    /\ spawned' = [spawned EXCEPT ![k].pc = "done"]
    /\ UNCHANGED <<sessions, objs, running, agentVars, chat, pureVars, threadVars>>

\* the environment: a child process exits
child_exit(k) ==
    /\ spawned[k].child = "alive"
    /\ spawned' = [spawned EXCEPT ![k].child = "exited"]
    /\ UNCHANGED <<sessions, objs, running, ptyLog, agentVars, chat, pureVars, threadVars>>

\* ------------------------------------------------------------ credentials
\* a check_credentials that reports credentials whatever the probes find
check_credentials_found(agent, has_creds, cli) ==
    [found |-> TRUE, cli_available |-> cli]

\* check_credentials: has_creds and cli are what the probes of the file system,
\* keychain, environment and PATH find for a CLI-backed agent
check_credentials(agent, has_creds, cli) ==
    IF agent = OpenCode
    THEN [found |-> TRUE, cli_available |-> TRUE]
    ELSE [found |-> has_creds, cli_available |-> cli]

\* a get_agent_cli_command that names a CLI for OpenCode too
get_agent_cli_command_any(agent, cli) ==
    IF cli THEN [res |-> "Ok", val |-> KindName(agent)]
    ELSE [res |-> "CliUnavailable", val |-> ""]

\* get_agent_cli_command: probes PATH again; OpenCode has no CLI
get_agent_cli_command(agent, cli) ==
    CASE agent = ClaudeCode -> IF cli THEN [res |-> "Ok", val |-> "claude"]
                               ELSE [res |-> "CliUnavailable", val |-> ""]
      [] agent = Codex -> IF cli THEN [res |-> "Ok", val |-> "codex"]
                          ELSE [res |-> "CliUnavailable", val |-> ""]
      [] agent = OpenCode -> [res |-> "UnsupportedTransport", val |-> ""]

\* ------------------------------------------------------------ AgentManager
None == <<>>
Some(x) == <<x>>

\* AgentManager::get_session
get_session(st) == st.current_session

\* AgentManager::set_session
set_session(st, session) == [st EXCEPT !.current_session = session]

\* AgentManager::is_streaming
is_streaming(st) == st.streaming

\* AgentManager::set_streaming
set_streaming(st, value) == [st EXCEPT !.streaming = value]

\* AgentManager::append_output
append_output(st, data) == [st EXCEPT !.output_buffer = @ \o data]

\* AgentManager::take_output: empties the buffer (the caller drops the value)
take_output(st) == [st EXCEPT !.output_buffer = <<>>]

\* strip_ansi_codes: drops each ESC and what follows it up to and including
\* the next ASCII letter
RECURSIVE strip_from(_, _, _)
strip_from(s, i, in_escape) ==
    IF i > Len(s) THEN <<>>
    ELSE IF in_escape
    THEN strip_from(s, i + 1, ~(s[i] \in AsciiLetters))
    ELSE IF s[i] = ESC
    THEN strip_from(s, i + 1, TRUE)
    ELSE <<s[i]>> \o strip_from(s, i + 1, FALSE)

\* a stripping that lets the letter that ends an escape sequence through
RECURSIVE strip_from_keeping(_, _, _)
strip_from_keeping(s, i, in_escape) ==
    IF i > Len(s) THEN <<>>
    ELSE IF in_escape
    THEN IF s[i] \in AsciiLetters
         THEN <<s[i]>> \o strip_from_keeping(s, i + 1, FALSE)
         ELSE strip_from_keeping(s, i + 1, TRUE)
    ELSE IF s[i] = ESC
    THEN strip_from_keeping(s, i + 1, TRUE)
    ELSE <<s[i]>> \o strip_from_keeping(s, i + 1, FALSE)

strip_ansi_codes_keeping(s) == strip_from_keeping(s, 1, FALSE)

strip_ansi_codes(s) == strip_from(s, 1, FALSE)

StreamEvent(event_type, content, plan_update) ==
    [event_type |-> event_type, content |-> content, plan_update |-> plan_update]

AgentStatusEvent(session_id, connected, message) ==
    [session_id |-> session_id, connected |-> connected, message |-> message]

emit_chat(st, event) == [st EXCEPT !.chatLog = Append(@, event)]
emit_status(st, event) == [st EXCEPT !.statusLog = Append(@, event)]

\* the args match of agent_connect: the CLI arguments of a kind, or the error
\* returned for a kind without a PTY transport
connect_args(agent_type) ==
    CASE agent_type = ClaudeCode -> [res |-> "Ok", val |-> <<"chat", "--no-color">>]
      [] agent_type = Codex -> [res |-> "Ok", val |-> <<"chat">>]
      [] agent_type = OpenCode -> [res |-> "UnsupportedTransport", val |-> <<>>]

\* What the collaborators answer during one agent_connect: the credential
\* probe, the two PATH probes, openpty, the spawn and the emit.  An answer
\* the call never asks for (an earlier step failed) is fixed, so that each
\* run of the call is listed once.
ConnectEnvs ==
    {e \in [has_creds : BOOLEAN, cli1 : BOOLEAN, cli2 : BOOLEAN, opened : BOOLEAN,
            outcome : {"ok", "spawn_failed", "reader_failed"}, emitted : BOOLEAN] :
        /\ ~e.has_creds => e.cli1
        /\ ~(e.has_creds /\ e.cli1) => e.cli2
        /\ ~(e.has_creds /\ e.cli1 /\ e.cli2) => e.opened
        /\ ~(e.has_creds /\ e.cli1 /\ e.cli2 /\ e.opened) => e.outcome = "ok"
        /\ ~(e.has_creds /\ e.cli1 /\ e.cli2 /\ e.opened /\ e.outcome = "ok")
              => e.emitted}

\* every combination of answers of the credential probe and the two PATH
\* probes, asked for or not; what comes after them succeeds
GateEnvs ==
    [has_creds : BOOLEAN, cli1 : BOOLEAN, cli2 : BOOLEAN, opened : {TRUE},
     outcome : {"ok"}, emitted : {TRUE}]

\* an agent_connect that reports the connection without storing the session
agent_connect_unstored(st, agent_type, cwd, millis, env) ==
    LET cred_status == check_credentials(agent_type, env.has_creds, env.cli1)
        cli_cmd == get_agent_cli_command(agent_type, env.cli2)
        session_id == AgentSessionId(agent_type, millis)
        created == create_session(st, session_id, env.opened)
        args == connect_args(agent_type)
        started == spawn_in_session(created.st, session_id, env.outcome)
        session == [id |-> session_id, agent_type |-> agent_type, cwd |-> cwd,
                    connected |-> TRUE, status |-> "Connected"]
    IN
    IF ~cred_status.found THEN Return(st, "CredentialsMissing", Unit)
    ELSE IF ~cred_status.cli_available THEN Return(st, "CliUnavailable", Unit)
    ELSE IF cli_cmd.res # "Ok" THEN Return(st, cli_cmd.res, Unit)
    ELSE IF created.res # "Ok" THEN Return(created.st, created.res, Unit)
    ELSE IF args.res # "Ok" THEN Return(created.st, args.res, Unit)
    ELSE IF started.res # "Ok" THEN Return(started.st, started.res, started.val)
    ELSE IF ~env.emitted THEN Return(started.st, "EmitFailed", Unit)
    ELSE Return(emit_status(started.st,
                    AgentStatusEvent(session_id, TRUE, "Connected to agent")),
                "Ok", session)


\* agent_connect.  millis is the clock reading, env the collaborators' answers
agent_connect(st, agent_type, cwd, millis, env) ==
    LET cred_status == check_credentials(agent_type, env.has_creds, env.cli1)
        cli_cmd == get_agent_cli_command(agent_type, env.cli2)
        session_id == AgentSessionId(agent_type, millis)
        created == create_session(st, session_id, env.opened)
        args == connect_args(agent_type)
        started == spawn_in_session(created.st, session_id, env.outcome)
        session == [id |-> session_id, agent_type |-> agent_type, cwd |-> cwd,
                    connected |-> TRUE, status |-> "Connected"]
        current == set_session(started.st, Some(session))
    IN
    IF ~cred_status.found THEN Return(st, "CredentialsMissing", Unit)
    ELSE IF ~cred_status.cli_available THEN Return(st, "CliUnavailable", Unit)
    ELSE IF cli_cmd.res # "Ok" THEN Return(st, cli_cmd.res, Unit)
    ELSE IF created.res # "Ok" THEN Return(created.st, created.res, Unit)
    ELSE IF args.res # "Ok" THEN Return(created.st, args.res, Unit)
    ELSE IF started.res # "Ok" THEN Return(started.st, started.res, started.val)
    ELSE IF ~env.emitted THEN Return(current, "EmitFailed", Unit)
    ELSE Return(emit_status(current,
                    AgentStatusEvent(session_id, TRUE, "Connected to agent")),
                "Ok", session)

\* an agent_disconnect that leaves the streaming flag as it finds it
agent_disconnect_midturn(st, emitted) ==
    IF get_session(st) = None THEN Return(st, "NoActiveSession", Unit)
    ELSE
      LET session == get_session(st)[1]
          stopped == stop_session(st, session.id).st
          removed == remove_session(stopped, session.id).st
          cleared == set_session(removed, None)
      IN IF ~emitted THEN Return(cleared, "EmitFailed", Unit)
         ELSE Return(emit_status(cleared,
                         AgentStatusEvent(session.id, FALSE, "Disconnected")),
                     "Ok", Unit)

\* an agent_disconnect that resets the conversation and reports even when
\* nothing is connected
agent_disconnect_always(st, emitted) ==
    IF get_session(st) = None
    THEN Return(emit_status(take_output(set_streaming(st, FALSE)),
                    AgentStatusEvent("", FALSE, "Disconnected")),
                "NoActiveSession", Unit)
    ELSE
      LET session == get_session(st)[1]
          stopped == stop_session(st, session.id).st
          removed == remove_session(stopped, session.id).st
          cleared == set_streaming(set_session(removed, None), FALSE)
      IN IF ~emitted THEN Return(cleared, "EmitFailed", Unit)
         ELSE Return(emit_status(cleared,
                         AgentStatusEvent(session.id, FALSE, "Disconnected")),
                     "Ok", Unit)

\* agent_disconnect
agent_disconnect(st, emitted) ==
    IF get_session(st) = None THEN Return(st, "NoActiveSession", Unit)
    ELSE
      LET session == get_session(st)[1]
          stopped == stop_session(st, session.id).st
          removed == remove_session(stopped, session.id).st
          cleared == set_streaming(set_session(removed, None), FALSE)
      IN IF ~emitted THEN Return(cleared, "EmitFailed", Unit)
         ELSE Return(emit_status(cleared,
                         AgentStatusEvent(session.id, FALSE, "Disconnected")),
                     "Ok", Unit)

\* an agent_send_message that writes the message without the newline
agent_send_message_raw(st, message, delivered, emitted) ==
    IF get_session(st) = None THEN Return(st, "NoActiveSession", Unit)
    ELSE IF is_streaming(st) THEN Return(st, "AlreadyStreaming", Unit)
    ELSE
      LET session == get_session(st)[1]
          begun == take_output(set_streaming(st, TRUE))
          sent == write_to_session(begun, session.id, message, delivered)
      IN IF sent.res # "Ok" THEN sent
         ELSE IF ~emitted THEN Return(sent.st, "EmitFailed", Unit)
         ELSE Return(emit_chat(sent.st, StreamEvent("message_start", None, None)),
                     "Ok", Unit)

\* an agent_send_message that opens the turn before it looks for a session
agent_send_message_eager(st, message, delivered, emitted) ==
    LET begun == take_output(set_streaming(st, TRUE))
    IN IF get_session(st) = None THEN Return(begun, "NoActiveSession", Unit)
       ELSE IF is_streaming(st) THEN Return(st, "AlreadyStreaming", Unit)
       ELSE
         LET session == get_session(st)[1]
             input == message \o <<NL>>
             sent == write_to_session(begun, session.id, input, delivered)
         IN IF sent.res # "Ok" THEN sent
            ELSE IF ~emitted THEN Return(sent.st, "EmitFailed", Unit)
            ELSE Return(emit_chat(sent.st, StreamEvent("message_start", None, None)),
                        "Ok", Unit)

\* an agent_send_message that does not look at the streaming flag
agent_send_message_unchecked(st, message, delivered, emitted) ==
    IF get_session(st) = None THEN Return(st, "NoActiveSession", Unit)
    ELSE
      LET session == get_session(st)[1]
          begun == take_output(set_streaming(st, TRUE))
          input == message \o <<NL>>
          sent == write_to_session(begun, session.id, input, delivered)
      IN IF sent.res # "Ok" THEN sent
         ELSE IF ~emitted THEN Return(sent.st, "EmitFailed", Unit)
         ELSE Return(emit_chat(sent.st, StreamEvent("message_start", None, None)),
                     "Ok", Unit)

\* agent_send_message
agent_send_message(st, message, delivered, emitted) ==
    IF get_session(st) = None THEN Return(st, "NoActiveSession", Unit)
    ELSE IF is_streaming(st) THEN Return(st, "AlreadyStreaming", Unit)
    ELSE
      LET session == get_session(st)[1]
          begun == take_output(set_streaming(st, TRUE))
          input == message \o <<NL>>
          sent == write_to_session(begun, session.id, input, delivered)
      IN IF sent.res # "Ok" THEN sent
         ELSE IF ~emitted THEN Return(sent.st, "EmitFailed", Unit)
         ELSE Return(emit_chat(sent.st, StreamEvent("message_start", None, None)),
                     "Ok", Unit)

\* agent_get_session
agent_get_session(st) == Return(st, "Ok", get_session(st))

\* an agent_process_output that accumulates the cleaned text
agent_process_output_clean(st, data, emitted) ==
    LET clean_data == strip_ansi_codes(data)
        appended == append_output(st, clean_data)
    IN IF clean_data = <<>> THEN Return(appended, "Ok", Unit)
       ELSE IF ~emitted THEN Return(appended, "EmitFailed", Unit)
       ELSE Return(emit_chat(appended,
                       StreamEvent("content_block_delta", Some(clean_data), None)),
                   "Ok", Unit)

\* agent_process_output
agent_process_output(st, data, emitted) ==
    LET appended == append_output(st, data)
        clean_data == strip_ansi_codes(data)
    IN IF clean_data = <<>> THEN Return(appended, "Ok", Unit)
       ELSE IF ~emitted THEN Return(appended, "EmitFailed", Unit)
       ELSE Return(emit_chat(appended,
                       StreamEvent("content_block_delta", Some(clean_data), None)),
                   "Ok", Unit)

\* an agent_finish_response that is silent when no turn is under way
agent_finish_response_once(st, emitted) ==
    LET finished == set_streaming(st, FALSE)
    IN IF ~is_streaming(st) THEN Return(finished, "Ok", Unit)
       ELSE IF ~emitted THEN Return(finished, "EmitFailed", Unit)
       ELSE Return(emit_chat(finished, StreamEvent("message_stop", None, None)),
                   "Ok", Unit)

\* an agent_finish_response that flushes the buffer at the end of the turn
agent_finish_response_flushing(st, emitted) ==
    LET finished == take_output(set_streaming(st, FALSE))
    IN IF ~emitted THEN Return(finished, "EmitFailed", Unit)
       ELSE Return(emit_chat(finished, StreamEvent("message_stop", None, None)),
                   "Ok", Unit)


\* agent_finish_response
agent_finish_response(st, emitted) ==
    LET finished == set_streaming(st, FALSE)
    IN IF ~emitted THEN Return(finished, "EmitFailed", Unit)
       ELSE Return(emit_chat(finished, StreamEvent("message_stop", None, None)),
                   "Ok", Unit)

\* ---------------------------------------------------- the agent_* commands
\* the bounds on the sessions and children a call may add
Fits(st) ==
    /\ Len(st.objs) <= MaxObjs
    /\ Len(st.spawned) <= MaxSpawns

AgentConnect(agent_type, cwd, millis, env) ==
    LET r == agent_connect(State, agent_type, cwd, millis, env)
    IN /\ Fits(r.st)
       /\ Becomes(r.st)
   
AgentDisconnect(emitted) ==
    LET r == agent_disconnect(State, emitted)
    IN /\ Fits(r.st)
       /\ Becomes(r.st)
   
AgentSendMessage(message, delivered, emitted) ==
    LET r == agent_send_message(State, message, delivered, emitted)
    IN /\ Fits(r.st)
       /\ current_session # None =>
             LET o == sessions[current_session[1].id]
             IN o # 0 => Len(objs[o].written) < MaxWritten
       /\ Becomes(r.st)
   
AgentProcessOutput(data, emitted) ==
    LET r == agent_process_output(State, data, emitted)
    IN /\ Fits(r.st)
       /\ Len(output_buffer) < MaxBuffer
       /\ Becomes(r.st)
   
AgentFinishResponse(emitted) ==
    LET r == agent_finish_response(State, emitted)
    IN /\ Fits(r.st)
       /\ Becomes(r.st)
   
\* ------------------------------------------------------ the mock chat backend
\* message.to_lowercase(), on ASCII letters
to_lowercase(s) ==
    [i \in 1..Len(s) |->
        IF \E j \in 1..26 : UpperLetters[j] = s[i]
        THEN LowerLetters[CHOOSE j \in 1..26 : UpperLetters[j] = s[i]]
        ELSE s[i]]

\* str::contains
contains(s, pat) ==
    \E i \in 1..(Len(s) - Len(pat) + 1) : SubSeq(s, i, i + Len(pat) - 1) = pat

\* str::split_whitespace: the maximal runs of non-whitespace, in order
RECURSIVE words_from(_, _, _)
words_from(s, i, word) ==
    LET ended == IF word = <<>> THEN <<>> ELSE <<word>>
    IN IF i > Len(s) THEN ended
       ELSE IF s[i] \in Whitespace THEN ended \o words_from(s, i + 1, <<>>)
       ELSE words_from(s, i + 1, Append(word, s[i]))

split_whitespace(s) == words_from(s, 1, <<>>)

\* word.starts_with('t') && word[1..].chars().all(|c| c.is_ascii_digit())
is_task_word(word) ==
    /\ word[1] = "t"
    /\ \A i \in 2..Len(word) : word[i] \in Digits

\* the first word of the message that names a task, if any
first_task_word(message) ==
    LET words == split_whitespace(message)
        hits == {i \in 1..Len(words) : is_task_word(words[i])}
    IN IF hits = {} THEN None
       ELSE Some(words[CHOOSE i \in hits : \A j \in hits : i <= j])

\* is_plan_update_command: Some(<<task id, status>>) or None
is_plan_update_command(message) ==
    LET lower == to_lowercase(message)
        word == first_task_word(message)
    IN IF /\ contains(lower, <<"m", "a", "r", "k">>)
          /\ contains(lower, <<"c", "o", "m", "p", "l", "e", "t", "e">>)
          /\ word # None
       THEN Some(<<word[1], "completed">>)
       ELSE IF /\ \/ contains(lower, <<"s", "t", "a", "r", "t">>)
                  \/ contains(lower, <<"b", "e", "g", "i", "n">>)
               /\ word # None
       THEN Some(<<word[1], "in_progress">>)
       ELSE None

\* CANNED_RESPONSES, character by character
CANNED_RESPONSES ==
    <<
        <<"I", " ", "u", "n", "d", "e", "r", "s", "t", "a", "n", "d", " ",
          "y", "o", "u", "'", "r", "e", " ", "w", "o", "r", "k", "i", "n",
          "g", " ", "o", "n", " ", "a", " ", "p", "l", "a", "n", ".", " ",
          "L", "e", "t", " ", "m", "e", " ", "h", "e", "l", "p", " ", "y",
          "o", "u", " ", "w", "i", "t", "h", " ", "t", "h", "a", "t", ".",
          " ", "I", " ", "c", "a", "n", " ", "s", "e", "e", " ", "y", "o",
          "u", "r", " ", "t", "a", "s", "k", "s", " ", "a", "n", "d", " ",
          "p", "h", "a", "s", "e", "s", ",", " ", "a", "n", "d", " ", "I",
          "'", "l", "l", " ", "d", "o", " ", "m", "y", " ", "b", "e", "s",
          "t", " ", "t", "o", " ", "a", "s", "s", "i", "s", "t", " ", "y",
          "o", "u", " ", "i", "n", " ", "m", "a", "k", "i", "n", "g", " ",
          "p", "r", "o", "g", "r", "e", "s", "s", ".">>,
        <<"B", "a", "s", "e", "d", " ", "o", "n", " ", "t", "h", "e", " ",
          "c", "u", "r", "r", "e", "n", "t", " ", "s", "t", "a", "t", "e",
          " ", "o", "f", " ", "y", "o", "u", "r", " ", "p", "l", "a", "n",
          ",", " ", "I", " ", "n", "o", "t", "i", "c", "e", " ", "t", "h",
          "e", "r", "e", " ", "a", "r", "e", " ", "s", "o", "m", "e", " ",
          "t", "a", "s", "k", "s", " ", "t", "h", "a", "t", " ", "c", "o",
          "u", "l", "d", " ", "b", "e", " ", "o", "p", "t", "i", "m", "i",
          "z", "e", "d", ".", " ", "W", "o", "u", "l", "d", " ", "y", "o",
          "u", " ", "l", "i", "k", "e", " ", "m", "e", " ", "t", "o", " ",
          "s", "u", "g", "g", "e", "s", "t", " ", "s", "o", "m", "e", " ",
          "i", "m", "p", "r", "o", "v", "e", "m", "e", "n", "t", "s", "?">>,
        <<"T", "h", "a", "t", "'", "s", " ", "a", " ", "g", "r", "e", "a",
          "t", " ", "q", "u", "e", "s", "t", "i", "o", "n", "!", " ", "W",
          "h", "e", "n", " ", "w", "o", "r", "k", "i", "n", "g", " ", "w",
          "i", "t", "h", " ", "p", "l", "a", "n", "s", ",", " ", "i", "t",
          "'", "s", " ", "i", "m", "p", "o", "r", "t", "a", "n", "t", " ",
          "t", "o", " ", "c", "o", "n", "s", "i", "d", "e", "r", " ", "d",
          "e", "p", "e", "n", "d", "e", "n", "c", "i", "e", "s", " ", "b",
          "e", "t", "w", "e", "e", "n", " ", "t", "a", "s", "k", "s", ".",
          " ", "L", "e", "t", " ", "m", "e", " ", "a", "n", "a", "l", "y",
          "z", "e", " ", "y", "o", "u", "r", " ", "c", "u", "r", "r", "e",
          "n", "t", " ", "s", "e", "t", "u", "p", ".">>,
        <<"I", "'", "v", "e", " ", "r", "e", "v", "i", "e", "w", "e", "d",
          " ", "y", "o", "u", "r", " ", "p", "l", "a", "n", " ", "s", "t",
          "r", "u", "c", "t", "u", "r", "e", ".", " ", "H", "e", "r", "e",
          " ", "a", "r", "e", " ", "s", "o", "m", "e", " ", "o", "b", "s",
          "e", "r", "v", "a", "t", "i", "o", "n", "s", ":", NL, NL, "1", ".",
          " ", "Y", "o", "u", "r", " ", "p", "h", "a", "s", "e", "s", " ",
          "a", "r", "e", " ", "w", "e", "l", "l", "-", "o", "r", "g", "a",
          "n", "i", "z", "e", "d", NL, "2", ".", " ", "T", "a", "s", "k",
          " ", "d", "e", "p", "e", "n", "d", "e", "n", "c", "i", "e", "s",
          " ", "l", "o", "o", "k", " ", "l", "o", "g", "i", "c", "a", "l",
          NL, "3", ".", " ", "C", "o", "n", "s", "i", "d", "e", "r", " ",
          "a", "d", "d", "i", "n", "g", " ", "m", "o", "r", "e", " ", "g",
          "r", "a", "n", "u", "l", "a", "r", " ", "t", "a", "s", "k", "s",
          " ", "f", "o", "r", " ", "c", "o", "m", "p", "l", "e", "x", " ",
          "i", "t", "e", "m", "s">>,
        <<"L", "e", "t", " ", "m", "e", " ", "h", "e", "l", "p", " ", "y",
          "o", "u", " ", "b", "r", "e", "a", "k", " ", "d", "o", "w", "n",
          " ", "t", "h", "i", "s", " ", "t", "a", "s", "k", " ", "i", "n",
          "t", "o", " ", "s", "m", "a", "l", "l", "e", "r", ",", " ", "m",
          "a", "n", "a", "g", "e", "a", "b", "l", "e", " ", "p", "i", "e",
          "c", "e", "s", ".", " ", "T", "h", "i", "s", " ", "w", "i", "l",
          "l", " ", "m", "a", "k", "e", " ", "t", "r", "a", "c", "k", "i",
          "n", "g", " ", "p", "r", "o", "g", "r", "e", "s", "s", " ", "e",
          "a", "s", "i", "e", "r", " ", "a", "n", "d", " ", "h", "e", "l",
          "p", " ", "i", "d", "e", "n", "t", "i", "f", "y", " ", "b", "o",
          "t", "t", "l", "e", "n", "e", "c", "k", "s", " ", "e", "a", "r",
          "l", "y", ".">>
    >>

\* the text streamed back for a message
response_for(message) ==
    LET plan_update == is_plan_update_command(message)
        response_index == Len(message) % Len(CANNED_RESPONSES)
        base_response == CANNED_RESPONSES[response_index + 1]
    IN IF plan_update # None
       THEN <<"I", "'", "l", "l", " ">>
            \o (IF plan_update[1][2] = "completed"
                THEN <<"m", "a", "r", "k", " ", "a", "s", " ", "c", "o", "m", "p", "l", "e", "t", "e">>
                ELSE <<"s", "t", "a", "r", "t">>)
            \o <<" ", "t", "a", "s", "k", " ">> \o plan_update[1][1]
            \o <<" ", "f", "o", "r", " ", "y", "o", "u", ".", NL, NL>>
            \o base_response
       ELSE base_response

\* a chunking that keeps only the pieces of full size
chunks_exact(chars, chunk_size) ==
    [j \in 1..(Len(chars) \div chunk_size) |->
        SubSeq(chars, (j - 1) * chunk_size + 1, j * chunk_size)]

\* chars.chunks(chunk_size): consecutive pieces of chunk_size characters, the
\* last one shorter when the length is no multiple of chunk_size
chunks(chars, chunk_size) ==
    [j \in 1..((Len(chars) + chunk_size - 1) \div chunk_size) |->
        SubSeq(chars, (j - 1) * chunk_size + 1,
               IF j * chunk_size < Len(chars) THEN j * chunk_size ELSE Len(chars))]

\* Characters per chunk
chunk_size == 3

PlanUpdate(node_id, status) ==
    [node_id |-> node_id, status |-> Some(status), content |-> None]

\* messages the user types into the mock chat
ChatMessages ==
    {
        <<"h", "i">>,
        <<"m", "a", "r", "k", " ", "t", "1", " ", "c", "o", "m", "p", "l",
          "e", "t", "e">>,
        <<"s", "t", "a", "r", "t", " ", "t", "2">>,
        <<"M", "a", "r", "k", " ", "T", "1", " ", "C", "o", "m", "p", "l",
          "e", "t", "e">>,
        <<"b", "e", "g", "i", "n", " ", "t">>,
        <<"r", "e", "s", "t", "a", "r", "t", " ", "i", "t">>
    }

\* One invocation of send_chat_message: what it computed on entry, where it
\* is suspended, and (for the record) the events it has emitted itself.
\*   pc: the emit it performs when it resumes, or "done" once it has returned
Invocation(message) ==
    [message |-> message,
     plan_update |-> is_plan_update_command(message),
     chunks |-> chunks(response_for(message), chunk_size),
     pc |-> "message_start", next |-> 1, emitted |-> <<>>, res |-> ""]

\* emit_event by invocation i, and the `?` after it: on success the
\* invocation goes on to pc (at chunk next), on failure it returns the error
emit_event(i, event, emitted, pc, next) ==
    /\ chat' = [chat EXCEPT ![i] =
                   IF emitted
                   THEN [@ EXCEPT !.emitted = Append(@, event), !.pc = pc,
                                  !.next = next,
                                  !.res = IF pc = "done" THEN "Ok" ELSE ""]
                   ELSE [@ EXCEPT !.pc = "done", !.res = "EmitFailed"]]
    /\ chatLog' = IF emitted THEN Recent(Append(chatLog, event), MaxChatEvents)
                  ELSE chatLog
    /\ UNCHANGED <<ptyVars, current_session, streaming, output_buffer, statusLog,
                 pureVars, threadVars>>

\* the loop over the chunks is entered unless the response is empty
after_block_start(inv) == IF Len(inv.chunks) = 0 THEN "block_stop" ELSE "delta"

\* send_chat_message is called: up to the first emit, message_start
send_chat_message(message, emitted) ==
    /\ Len(chat) < MaxInvocations
    /\ LET i == Len(chat) + 1
       IN /\ chat' = Append(chat,
                 IF emitted
                 THEN [Invocation(message) EXCEPT
                          !.emitted = <<StreamEvent("message_start", None, None)>>,
                          !.pc = "block_start"]
                 ELSE [Invocation(message) EXCEPT !.pc = "done",
                                                  !.res = "EmitFailed"])
          /\ chatLog' = IF emitted
                        THEN Recent(Append(chatLog,
                                 StreamEvent("message_start", None, None)),
                                 MaxChatEvents)
                        ELSE chatLog
    /\ UNCHANGED <<ptyVars, current_session, streaming, output_buffer, statusLog,
                 pureVars, threadVars>>

\* after the first sleep: content_block_start
send_chat_message_block_start(i, emitted) ==
    /\ chat[i].pc = "block_start"
    /\ emit_event(i, StreamEvent("content_block_start", None, None), emitted,
                  after_block_start(chat[i]), 1)

\* one turn of the loop: the delta of the next chunk, then a sleep
send_chat_message_delta(i, emitted) ==
    /\ chat[i].pc = "delta"
    /\ emit_event(i,
          StreamEvent("content_block_delta", Some(chat[i].chunks[chat[i].next]),
                      None),
          emitted,
          IF chat[i].next = Len(chat[i].chunks) THEN "block_stop" ELSE "delta",
          chat[i].next + 1)

\* after the loop: content_block_stop
send_chat_message_block_stop(i, emitted) ==
    /\ chat[i].pc = "block_stop"
    /\ emit_event(i, StreamEvent("content_block_stop", None, None), emitted,
                  IF chat[i].plan_update # None THEN "plan_update"
                  ELSE "message_stop",
                  chat[i].next)

\* a plan update command: after a sleep, the plan_update event
send_chat_message_plan_update(i, emitted) ==
    /\ chat[i].pc = "plan_update"
    /\ emit_event(i,
          StreamEvent("plan_update", None,
              Some(PlanUpdate(chat[i].plan_update[1][1], chat[i].plan_update[1][2]))),
          emitted, "message_stop", chat[i].next)

\* after the last sleep: message_stop, and the call returns Ok
send_chat_message_stop(i, emitted) ==
    /\ chat[i].pc = "message_stop"
    /\ emit_event(i, StreamEvent("message_stop", None, None), emitted,
                  "done", chat[i].next)

\* --------------------------------------------------------- specification
Init ==
    /\ sessions = [id \in SessionIds |-> 0]
    /\ objs = <<>>
    /\ running = <<>>
    /\ spawned = <<>>
    /\ ptyLog = <<>>
    /\ current_session = <<>>
    /\ streaming = FALSE
    /\ output_buffer = <<>>
    /\ chatLog = <<>>
    /\ statusLog = <<>>
    /\ chat = <<>>
    /\ strip_input = <<>>
    /\ strip_result = <<>>
    /\ lock = 0
    /\ calls = [t \in Threads |-> Idle]
    /\ tasks = [t \in Threads |-> Idle]
    /\ readLog = <<>>
    /\ history_dir = {}
    /\ layout_file = <<>>
    /\ merge_result = <<>>

PtyCalls ==
    \/ \E id \in PtyIds, opened \in BOOLEAN : pty_create_session(id, opened)
    \/ \E id \in PtyIds, outcome \in {"ok", "spawn_failed", "reader_failed"} :
          pty_spawn(id, outcome)
    \/ \E id \in PtyIds, data \in WriteData :
          \E delivered \in Delivered(data) : pty_write(id, data, delivered)
    \/ \E id \in PtyIds, size \in Sizes, resized \in BOOLEAN :
          pty_resize(id, size, resized)
    \/ \E id \in PtyIds : pty_stop(id)
    \/ \E id \in PtyIds : pty_remove(id)
    \/ \E id \in PtyIds : pty_is_running(id)

Readers ==
    \/ \E k \in Spawns : reader_check(k)
    \/ \E k \in Spawns, emitted \in BOOLEAN : reader_read_data(k, emitted)
    \/ \E k \in Spawns : reader_read_end(k)
    \/ \E k \in Spawns : reader_store(k)
    \/ \E k \in Spawns, waited \in BOOLEAN, code \in ExitCodes, emitted \in BOOLEAN :
          reader_exit(k, waited, code, emitted)
    \/ \E k \in Spawns : child_exit(k)

PtyNext == PtyCalls \/ Readers

\* the PTY manager driven directly by the frontend
SpecPty == Init /\ [][PtyNext]_vars

AgentCalls ==
    \/ \E agent_type \in AgentType, cwd \in Cwds, millis \in Times, env \in ConnectEnvs :
          AgentConnect(agent_type, cwd, millis, env)
    \/ \E emitted \in BOOLEAN : AgentDisconnect(emitted)
    \/ \E message \in Messages, emitted \in BOOLEAN :
          \E delivered \in Delivered(message \o <<NL>>) :
             AgentSendMessage(message, delivered, emitted)
    \/ \E data \in RawChunks, emitted \in BOOLEAN : AgentProcessOutput(data, emitted)
    \/ \E emitted \in BOOLEAN : AgentFinishResponse(emitted)

\* the frontend also reaches the agent's PTY session through the pty_* commands
AgentPtyCalls ==
    \/ \E id \in AgentIds : pty_stop(id)
    \/ \E id \in AgentIds : pty_remove(id)

\* The reader steps that touch what the agent layer reads, the running flag:
\* the steps left out (a read that returns data, the child's exit, the wait
\* and the pty-exit event) change only ptyLog and the thread's own position
\* after the flag is cleared.
AgentReaders ==
    \/ \E k \in Spawns : reader_check(k)
    \/ \E k \in Spawns : reader_read_end(k)
    \/ \E k \in Spawns : reader_store(k)

Next == AgentCalls \/ AgentPtyCalls \/ AgentReaders

\* the agent adapter on top of the PTY manager
Spec == Init /\ [][Next]_vars

Invocations == 1..Len(chat)

ChatNext ==
    \/ \E message \in ChatMessages, emitted \in BOOLEAN :
          send_chat_message(message, emitted)
    \/ \E i \in Invocations, emitted \in BOOLEAN :
          send_chat_message_block_start(i, emitted)
    \/ \E i \in Invocations, emitted \in BOOLEAN : send_chat_message_delta(i, emitted)
    \/ \E i \in Invocations, emitted \in BOOLEAN :
          send_chat_message_block_stop(i, emitted)
    \/ \E i \in Invocations, emitted \in BOOLEAN :
          send_chat_message_plan_update(i, emitted)
    \/ \E i \in Invocations, emitted \in BOOLEAN : send_chat_message_stop(i, emitted)

\* the mock chat backend
SpecChat == Init /\ [][ChatNext]_vars

\* ------------------------------------------------- the reader, scheduled
\* the steps reader k takes on its own once it is out of the loop: the store
\* to the flag, and the exit event once wait() can return the child's status
ReaderStores(k) == k \in Spawns /\ reader_store(k)
ReaderExits(k) ==
    /\ k \in Spawns
    /\ spawned[k].child = "exited"
    /\ \E waited \in BOOLEAN, code \in ExitCodes, emitted \in BOOLEAN :
          reader_exit(k, waited, code, emitted)

\* a reader thread that can take a step is scheduled in the end
ReaderFairness ==
    \A k \in 1..MaxSpawns : WF_vars(ReaderStores(k)) /\ WF_vars(ReaderExits(k))

\* the PTY manager driven by the frontend, with reader threads that get to run
SpecPtyFair == Init /\ [][PtyNext]_vars /\ ReaderFairness


\* ----------------------------------------------------- strip_ansi_codes alone
\* characters of the texts: ESC, a letter, and two that are no letters
StripChars == {ESC, "a", "[", "1"}
StripInputs == UNION {[1..n -> StripChars] : n \in 0..MaxStripLen}

\* a caller strips its text
strip_call ==
    /\ strip_result = None
    /\ strip_result' = Some(strip_ansi_codes(strip_input))
    /\ UNCHANGED <<ptyVars, agentVars, chat, strip_input, threadVars, fileVars>>

\* a caller strips what an earlier call returned
strip_again ==
    /\ strip_result # None
    /\ strip_input' = strip_result[1]
    /\ strip_result' = Some(strip_ansi_codes(strip_result[1]))
    /\ UNCHANGED <<ptyVars, agentVars, chat, threadVars, fileVars>>

InitStrip ==
    /\ sessions = [id \in SessionIds |-> 0]
    /\ objs = <<>>
    /\ running = <<>>
    /\ spawned = <<>>
    /\ ptyLog = <<>>
    /\ current_session = <<>>
    /\ streaming = FALSE
    /\ output_buffer = <<>>
    /\ chatLog = <<>>
    /\ statusLog = <<>>
    /\ chat = <<>>
    /\ strip_input \in StripInputs
    /\ strip_result = None
    /\ lock = 0
    /\ calls = [t \in Threads |-> Idle]
    /\ tasks = [t \in Threads |-> Idle]
    /\ readLog = <<>>
    /\ history_dir = {}
    /\ layout_file = <<>>
    /\ merge_result = <<>>

StripNext == strip_call \/ strip_again

SpecStrip == InitStrip /\ [][StripNext]_vars

\* ------------------------------------------- PtyManager calls, lock by lock
\* The methods of PtyManager as they run on a thread: PtySession::new (for
\* create_session), self.sessions.lock(), the lookup and the delegated call
\* under the guard, and the return, which drops the guard.
PtyOps ==
    {"create_session", "spawn_in_session", "write_to_session", "resize_session",
     "stop_session", "remove_session", "is_session_running"}

\* the assignments of Becomes to the managers' variables alone
Takes(st) ==
    /\ sessions' = st.sessions
    /\ objs' = st.objs
    /\ running' = st.running
    /\ spawned' = st.spawned
    /\ ptyLog' = Recent(st.ptyLog, MaxPtyEvents)
    /\ current_session' = st.current_session
    /\ streaming' = st.streaming
    /\ output_buffer' = st.output_buffer
    /\ chatLog' = Recent(st.chatLog, MaxChatEvents)
    /\ statusLog' = Recent(st.statusLog, MaxStatusEvents)

\* calls of op that have begun and not returned
Inside(op) == Cardinality({t \in Threads : calls[t].op = op})

\* thread t enters a method of PtyManager
begin_call(t, op, id) ==
    /\ calls[t] = Idle
    /\ op = "create_session" => Len(objs) + Inside(op) < MaxObjs
    /\ op = "spawn_in_session" => Len(spawned) + Inside(op) < MaxSpawns
    /\ op = "write_to_session" =>
          /\ Inside(op) = 0
          /\ sessions[id] # 0 => Len(objs[sessions[id]].written) < MaxWritten
    /\ calls' = [calls EXCEPT ![t] =
                    [op |-> op, id |-> id,
                     pc |-> IF op = "create_session" THEN "new" ELSE "lock"]]
    /\ UNCHANGED <<ptyVars, agentVars, chat, pureVars, lock, tasks, readLog>>

\* create_session: PtySession::new(id)?, before the lock is asked for
open_pty(t, opened) ==
    /\ calls[t].pc = "new"
    /\ calls' = [calls EXCEPT ![t] = IF opened THEN [@ EXCEPT !.pc = "lock"] ELSE Idle]
    /\ UNCHANGED <<ptyVars, agentVars, chat, pureVars, lock, tasks, readLog>>

\* self.sessions.lock(): returns when no other thread holds the guard
acquire_lock(t) ==
    /\ calls[t].pc = "lock"
    /\ lock = 0
    /\ lock' = t
    /\ calls' = [calls EXCEPT ![t].pc = "locked"]
    /\ UNCHANGED <<ptyVars, agentVars, chat, pureVars, tasks, readLog>>

\* what the method does under the guard, up to its return.  write_to_session
\* on a session that is there goes into write_all and flush, which return
\* when the PTY has taken the bytes; every other method returns at once.
run_locked(t) ==
    /\ calls[t].pc = "locked"
    /\ lock = t
    /\ LET op == calls[t].op
           id == calls[t].id
       IN IF op = "write_to_session" /\ sessions[id] # 0
          THEN /\ calls' = [calls EXCEPT ![t].pc = "write_all"]
               /\ UNCHANGED <<ptyVars, agentVars, lock>>
          ELSE /\ \E outcome \in {"ok", "spawn_failed", "reader_failed"},
                     data \in WriteData, size \in Sizes, resized \in BOOLEAN :
                     Takes(CASE op = "create_session" ->
                                    create_session(State, id, TRUE).st
                             [] op = "spawn_in_session" ->
                                    spawn_in_session(State, id, outcome).st
                             [] op = "write_to_session" ->
                                    write_to_session(State, id, data, 0).st
                             [] op = "resize_session" ->
                                    resize_session(State, id, size, resized).st
                             [] op = "stop_session" -> stop_session(State, id).st
                             [] op = "remove_session" -> remove_session(State, id).st
                             [] op = "is_session_running" ->
                                    is_session_running(State, id).st)
               /\ calls' = [calls EXCEPT ![t] = Idle]
               /\ lock' = 0
    /\ UNCHANGED <<chat, pureVars, tasks, readLog>>

\* write_all and flush return (the child has made room in the PTY, or the
\* write failed), then write_to_session returns
finish_write(t, data, delivered) ==
    /\ calls[t].pc = "write_all"
    /\ Takes(write_to_session(State, calls[t].id, data, delivered).st)
    /\ calls' = [calls EXCEPT ![t] = Idle]
    /\ lock' = 0
    /\ UNCHANGED <<chat, pureVars, tasks, readLog>>

LockNext ==
    \/ \E t \in Threads, op \in PtyOps, id \in PtyIds : begin_call(t, op, id)
    \/ \E t \in Threads, opened \in BOOLEAN : open_pty(t, opened)
    \/ \E t \in Threads : acquire_lock(t)
    \/ \E t \in Threads : run_locked(t)
    \/ \E t \in Threads, data \in WriteData :
          \E delivered \in Delivered(data) : finish_write(t, data, delivered)

\* the PTY manager called from several threads
SpecLock == Init /\ [][LockNext]_vars


\* -------------------------------------------- the reader, read by read
\* The reader's Ok(n) arm in two steps, the read and the emit: between them
\* other threads run.  readLog lists the reads that returned data, in the
\* order in which the OS served them; an event carries the index of its read.
LastRead(k) ==
    CHOOSE i \in DOMAIN readLog :
        /\ readLog[i].by = k
        /\ \A j \in DOMAIN readLog : readLog[j].by = k => j <= i

PtyOutputEventOf(k, chunk) ==
    [type |-> "pty-output", session_id |-> spawned[k].session_id,
     data |-> chunk, exit_code |-> -1, status |-> -1, by |-> k]

\* reader.read(&mut buf) returns n > 0 bytes of the session's PTY
reader_read(k) ==
    /\ spawned[k].pc = "read"
    /\ Len(readLog) < MaxReads
    /\ readLog' = Append(readLog, [obj |-> spawned[k].obj, by |-> k])
    /\ spawned' = [spawned EXCEPT ![k].pc = "emit"]
    /\ UNCHANGED <<sessions, objs, running, ptyLog, agentVars, chat, pureVars,
                   lock, calls, tasks>>

\* a reader that sends the bytes of its first read again with every event
reader_emit_stale(k, emitted) ==
    /\ spawned[k].pc = "emit"
    /\ ptyLog' = IF emitted
                 THEN Recent(Append(ptyLog,
                         PtyOutputEventOf(k,
                            CHOOSE i \in DOMAIN readLog :
                               /\ readLog[i].by = k
                               /\ \A j \in DOMAIN readLog :
                                     readLog[j].by = k => i <= j)),
                         MaxPtyEvents)
                 ELSE ptyLog
    /\ spawned' = [spawned EXCEPT ![k].pc = "check"]
    /\ UNCHANGED <<sessions, objs, running, agentVars, chat, pureVars, threadVars>>

\* app.emit("pty-output", ..) with the bytes just read (an emit that fails is
\* only logged), then back to the loop head
reader_emit(k, emitted) ==
    /\ spawned[k].pc = "emit"
    /\ ptyLog' = IF emitted
                 THEN Recent(Append(ptyLog, PtyOutputEventOf(k, LastRead(k))),
                             MaxPtyEvents)
                 ELSE ptyLog
    /\ spawned' = [spawned EXCEPT ![k].pc = "check"]
    /\ UNCHANGED <<sessions, objs, running, agentVars, chat, pureVars, threadVars>>

OrderCalls ==
    \/ \E id \in PtyIds, opened \in BOOLEAN : pty_create_session(id, opened)
    \/ \E id \in PtyIds, outcome \in {"ok", "spawn_failed", "reader_failed"} :
          pty_spawn(id, outcome)
    \/ \E id \in PtyIds : pty_stop(id)

OrderReaders ==
    \/ \E k \in Spawns : reader_check(k)
    \/ \E k \in Spawns : reader_read(k)
    \/ \E k \in Spawns, emitted \in BOOLEAN : reader_emit(k, emitted)
    \/ \E k \in Spawns : reader_read_end(k)
    \/ \E k \in Spawns : reader_store(k)
    \/ \E k \in Spawns, waited \in BOOLEAN, code \in ExitCodes, emitted \in BOOLEAN :
          reader_exit(k, waited, code, emitted)
    \/ \E k \in Spawns : child_exit(k)

OrderNext == OrderCalls \/ OrderReaders

\* sessions and their reader threads, each read and each emit a step
SpecOrder == Init /\ [][OrderNext]_vars


\* ------------------------------------------ agent commands, step by step
\* The agent commands as they run on a thread, one step for each access to
\* the shared state: a get or set of current_session, a load or store of the
\* streaming flag, a call of a PtyManager method, an emit.  tasks[t] holds
\* the command thread t is inside, where it is, and its local `session`.
AgentOps ==
    {"agent_connect", "agent_disconnect", "agent_send_message",
     "agent_finish_response"}

\* the first step of a command
Entry(op) ==
    CASE op = "agent_connect" -> "check_credentials"
      [] op = "agent_disconnect" -> "get_session"
      [] op = "agent_send_message" -> "get_session"
      [] op = "agent_finish_response" -> "set_streaming"

Goes(t, pc) == tasks' = [tasks EXCEPT ![t].pc = pc]
Returns(t) == tasks' = [tasks EXCEPT ![t] = Idle]

\* connects that have begun and not yet created their PTY session
Connecting ==
    Cardinality({t \in Threads :
        /\ tasks[t].op = "agent_connect"
        /\ tasks[t].pc \in {"check_credentials", "create_session"}})

\* thread t enters a command
begin_task(t, op) ==
    /\ tasks[t] = Idle
    /\ op = "agent_connect" => Len(objs) + Connecting < MaxObjs
    /\ tasks' = [tasks EXCEPT ![t] = [op |-> op, pc |-> Entry(op), session |-> None]]
    /\ UNCHANGED <<ptyVars, agentVars, chat, pureVars, lock, calls, readLog>>

\* agent_connect, one step
connect_step(t, agent_type, millis, env) ==
    LET session_id == AgentSessionId(agent_type, millis)
        session == [id |-> session_id, agent_type |-> agent_type, cwd |-> "/tmp",
                    connected |-> TRUE, status |-> "Connected"]
        mine == tasks[t].session[1]
    IN
    /\ tasks[t].op = "agent_connect"
    /\ CASE tasks[t].pc = "check_credentials" ->
              LET cred_status == check_credentials(agent_type, env.has_creds, env.cli1)
                  cli_cmd == get_agent_cli_command(agent_type, env.cli2)
              IN /\ IF cred_status.found /\ cred_status.cli_available
                       /\ cli_cmd.res = "Ok"
                    THEN tasks' = [tasks EXCEPT ![t].pc = "create_session",
                                                ![t].session = Some(session)]
                    ELSE Returns(t)
                 /\ UNCHANGED <<ptyVars, agentVars>>
         [] tasks[t].pc = "create_session" ->
              LET created == create_session(State, mine.id, env.opened)
              IN /\ Takes(created.st)
                 /\ IF created.res = "Ok" /\ connect_args(mine.agent_type).res = "Ok"
                    THEN Goes(t, "spawn_in_session")
                    ELSE Returns(t)
         [] tasks[t].pc = "spawn_in_session" ->
              LET started == spawn_in_session(State, mine.id,
                                 IF Len(spawned) < MaxSpawns THEN env.outcome
                                 ELSE "spawn_failed")
              IN /\ Takes(started.st)
                 /\ IF started.res = "Ok" THEN Goes(t, "set_session") ELSE Returns(t)
         [] tasks[t].pc = "set_session" ->
              /\ Takes(set_session(State, Some(mine)))
              /\ Goes(t, "emit")
         [] tasks[t].pc = "emit" ->
              /\ Takes(IF env.emitted
                       THEN emit_status(State,
                               AgentStatusEvent(mine.id, TRUE, "Connected to agent"))
                       ELSE State)
              /\ Returns(t)
    /\ UNCHANGED <<chat, pureVars, lock, calls, readLog>>

\* agent_disconnect, one step
disconnect_step(t, emitted) ==
    LET mine == tasks[t].session[1]
    IN
    /\ tasks[t].op = "agent_disconnect"
    /\ CASE tasks[t].pc = "get_session" ->
              /\ IF get_session(State) = None THEN Returns(t)
                 ELSE tasks' = [tasks EXCEPT ![t].pc = "stop_session",
                                             ![t].session = get_session(State)]
              /\ UNCHANGED <<ptyVars, agentVars>>
         [] tasks[t].pc = "stop_session" ->
              /\ Takes(stop_session(State, mine.id).st)
              /\ Goes(t, "remove_session")
         [] tasks[t].pc = "remove_session" ->
              /\ Takes(remove_session(State, mine.id).st)
              /\ Goes(t, "set_session")
         [] tasks[t].pc = "set_session" ->
              /\ Takes(set_session(State, None))
              /\ Goes(t, "set_streaming")
         [] tasks[t].pc = "set_streaming" ->
              /\ Takes(set_streaming(State, FALSE))
              /\ Goes(t, "emit")
         [] tasks[t].pc = "emit" ->
              /\ Takes(IF emitted
                       THEN emit_status(State,
                               AgentStatusEvent(mine.id, FALSE, "Disconnected"))
                       ELSE State)
              /\ Returns(t)
    /\ UNCHANGED <<chat, pureVars, lock, calls, readLog>>

\* agent_send_message, one step.  A write to a PTY that was already written
\* to fails at once (the bound on what a PTY takes).
send_message_step(t, message, delivered, emitted) ==
    LET mine == tasks[t].session[1]
        input == message \o <<NL>>
        o == sessions[mine.id]
    IN
    /\ tasks[t].op = "agent_send_message"
    /\ CASE tasks[t].pc = "get_session" ->
              /\ IF get_session(State) = None THEN Returns(t)
                 ELSE tasks' = [tasks EXCEPT ![t].pc = "is_streaming",
                                             ![t].session = get_session(State)]
              /\ UNCHANGED <<ptyVars, agentVars>>
         [] tasks[t].pc = "is_streaming" ->
              /\ IF is_streaming(State) THEN Returns(t) ELSE Goes(t, "set_streaming")
              /\ UNCHANGED <<ptyVars, agentVars>>
         [] tasks[t].pc = "set_streaming" ->
              /\ Takes(set_streaming(State, TRUE))
              /\ Goes(t, "take_output")
         [] tasks[t].pc = "take_output" ->
              /\ Takes(take_output(State))
              /\ Goes(t, "write_to_session")
         [] tasks[t].pc = "write_to_session" ->
              LET sent == write_to_session(State, mine.id, input,
                             IF o # 0 /\ Len(objs[o].written) >= MaxWritten
                             THEN 0 ELSE delivered)
              IN /\ Takes(sent.st)
                 /\ IF sent.res = "Ok" THEN Goes(t, "emit") ELSE Returns(t)
         [] tasks[t].pc = "emit" ->
              /\ Takes(IF emitted
                       THEN emit_chat(State, StreamEvent("message_start", None, None))
                       ELSE State)
              /\ Returns(t)
    /\ UNCHANGED <<chat, pureVars, lock, calls, readLog>>

\* agent_finish_response, one step
finish_response_step(t, emitted) ==
    /\ tasks[t].op = "agent_finish_response"
    /\ CASE tasks[t].pc = "set_streaming" ->
              /\ Takes(set_streaming(State, FALSE))
              /\ Goes(t, "emit")
         [] tasks[t].pc = "emit" ->
              /\ Takes(IF emitted
                       THEN emit_chat(State, StreamEvent("message_stop", None, None))
                       ELSE State)
              /\ Returns(t)
    /\ UNCHANGED <<chat, pureVars, lock, calls, readLog>>

TaskNext ==
    \/ \E t \in Threads, op \in AgentOps : begin_task(t, op)
    \/ \E t \in Threads, agent_type \in {ClaudeCode, OpenCode}, millis \in Times,
          env \in ConnectEnvs :
          connect_step(t, agent_type, millis, env)
    \/ \E t \in Threads, emitted \in BOOLEAN : disconnect_step(t, emitted)
    \/ \E t \in Threads, message \in Messages, emitted \in BOOLEAN :
          \E delivered \in Delivered(message \o <<NL>>) :
             send_message_step(t, message, delivered, emitted)
    \/ \E t \in Threads, emitted \in BOOLEAN : finish_response_step(t, emitted)

\* the agent commands called from several threads
SpecTask == Init /\ [][TaskNext]_vars


\* ------------------------------------------------- the three locks, guard by guard
\* The commands as sequences of lock and unlock: every method of AgentManager
\* and PtyManager takes the mutex of the field it works on, and its guard is
\* dropped when the method returns.  What the methods do under their guards
\* is in the sections above; here calls[t] holds the command thread t is
\* inside, the instruction it is at, and the guards it holds.
Guarded(mutex) == <<[do |-> "lock", on |-> mutex], [do |-> "unlock", on |-> mutex]>>

GuardOps ==
    {"agent_connect", "agent_disconnect", "agent_send_message", "agent_get_session",
     "agent_process_output", "agent_finish_response", "pty_create_session",
     "pty_spawn", "pty_write", "pty_resize", "pty_stop", "pty_remove",
     "pty_is_running"}

\* commands that hold the current-session guard while they call PtyManager
Programs_nested(op) ==
    CASE op = "agent_disconnect" ->
            <<[do |-> "lock", on |-> "current_session"]>>
            \o Guarded("sessions") \o Guarded("sessions")
            \o <<[do |-> "unlock", on |-> "current_session"]>>
      [] op = "agent_send_message" ->
            <<[do |-> "lock", on |-> "current_session"]>>
            \o Guarded("output_buffer") \o Guarded("sessions")
            \o <<[do |-> "unlock", on |-> "current_session"]>>
      [] OTHER -> Guarded("sessions")

\* the locks a command takes and drops, in program order
Programs(op) ==
    CASE op = "agent_connect" ->
            \* create_session, spawn_in_session, set_session
            Guarded("sessions") \o Guarded("sessions") \o Guarded("current_session")
      [] op = "agent_disconnect" ->
            \* get_session, stop_session, remove_session, set_session
            Guarded("current_session") \o Guarded("sessions") \o Guarded("sessions")
            \o Guarded("current_session")
      [] op = "agent_send_message" ->
            \* get_session, take_output, write_to_session
            Guarded("current_session") \o Guarded("output_buffer")
            \o Guarded("sessions")
      [] op = "agent_get_session" -> Guarded("current_session")
      [] op = "agent_process_output" -> Guarded("output_buffer")
      \* set_streaming is a store to an atomic
      [] op = "agent_finish_response" -> <<>>
      \* the pty_* commands: one method of PtyManager each
      [] OTHER -> Guarded("sessions")

\* the guards thread t holds
Holds(t) == IF calls[t] = Idle THEN {} ELSE calls[t].holds

\* thread t is at a lock() on a mutex whose guard some thread holds
Blocked(t) ==
    /\ calls[t] # Idle
    /\ calls[t].at <= Len(Programs(calls[t].op))
    /\ LET instr == Programs(calls[t].op)[calls[t].at]
       IN instr.do = "lock" /\ \E u \in Threads : instr.on \in Holds(u)

\* thread t enters a command
enter(t, op) ==
    /\ calls[t] = Idle
    /\ calls' = [calls EXCEPT ![t] = [op |-> op, pc |-> "run", at |-> 1, holds |-> {}]]
    /\ UNCHANGED <<ptyVars, agentVars, chat, pureVars, lock, tasks, readLog>>

\* thread t runs its next instruction: lock() returns when no thread holds the
\* guard, a guard is dropped, or the command returns
step(t) ==
    /\ calls[t] # Idle
    /\ ~Blocked(t)
    /\ LET prog == Programs(calls[t].op)
           at == calls[t].at
       IN IF at > Len(prog)
          THEN calls' = [calls EXCEPT ![t] = Idle] /\ lock' = lock
          ELSE /\ calls' = [calls EXCEPT
                    ![t].at = at + 1,
                    ![t].holds = IF prog[at].do = "lock" THEN @ \cup {prog[at].on}
                                 ELSE @ \ {prog[at].on}]
               /\ lock' = IF prog[at].on # "sessions" THEN lock
                          ELSE IF prog[at].do = "lock" THEN t ELSE 0
    /\ UNCHANGED <<ptyVars, agentVars, chat, pureVars, tasks, readLog>>

\* a method returned an error and the `?` after it returns from the command
return_early(t) ==
    /\ calls[t] # Idle
    /\ calls[t].at > 1
    /\ calls[t].at <= Len(Programs(calls[t].op))
    /\ Programs(calls[t].op)[calls[t].at].do = "lock"
    /\ calls' = [calls EXCEPT ![t] = Idle]
    /\ UNCHANGED <<ptyVars, agentVars, chat, pureVars, lock, tasks, readLog>>

GuardNext ==
    \/ \E t \in Threads, op \in GuardOps : enter(t, op)
    \/ \E t \in Threads : step(t)
    \/ \E t \in Threads : return_early(t)

\* the commands of both managers called from several threads, lock by lock
SpecGuard == Init /\ [][GuardNext]_vars



\* ------------------------------------------- the mock chat, two turns at once
\* invocations of send_chat_message that can be under way at the same time
MaxOverlap == 2
\* what the user sends while an answer is still streaming
OverlapMessages == {<<"h", "i">>}

\* send_chat_message is called again before an earlier invocation has
\* returned (the command is async: the runtime runs other invocations while
\* one sleeps): up to its first emit, message_start
send_chat_message_during(message, emitted) ==
    /\ Len(chat) >= 1
    /\ Len(chat) < MaxOverlap
    /\ chat' = Append(chat,
           IF emitted
           THEN [Invocation(message) EXCEPT
                    !.emitted = <<StreamEvent("message_start", None, None)>>,
                    !.pc = "block_start"]
           ELSE [Invocation(message) EXCEPT !.pc = "done", !.res = "EmitFailed"])
    /\ chatLog' = IF emitted
                  THEN Recent(Append(chatLog, StreamEvent("message_start", None, None)),
                              MaxChatEvents)
                  ELSE chatLog
    /\ UNCHANGED <<ptyVars, current_session, streaming, output_buffer, statusLog,
                 pureVars, threadVars>>

OverlapNext ==
    \/ ChatNext
    \/ \E message \in OverlapMessages, emitted \in BOOLEAN :
          send_chat_message_during(message, emitted)

\* the mock chat backend with invocations that overlap
SpecOverlap == Init /\ [][OverlapNext]_vars



\* ------------------------------------------------- layout snapshots (history.rs)
\* Maximum number of snapshots to retain per plan
MAX_SNAPSHOTS == 5
\* Minimum interval between time-based snapshots (in seconds)
MIN_SNAPSHOT_INTERVAL_SECS == 300
\* the readings of the clock at which layouts are written: this many, one
\* interval apart
MaxTicks == 6

\* u128 / u64 to decimal text, as format!("{}", timestamp) writes it
RECURSIVE Decimal(_)
Decimal(n) ==
    IF n < 10 THEN <<ToString(n)>> ELSE Decimal(n \div 10) \o <<ToString(n % 10)>>

DigitValue(c) ==
    CASE c = "0" -> 0 [] c = "1" -> 1 [] c = "2" -> 2 [] c = "3" -> 3 [] c = "4" -> 4
      [] c = "5" -> 5 [] c = "6" -> 6 [] c = "7" -> 7 [] c = "8" -> 8 [] c = "9" -> 9

\* str::parse::<u64> of a text of digits
RECURSIVE ParseDecimal(_)
ParseDecimal(s) ==
    IF Len(s) = 0 THEN 0
    ELSE 10 * ParseDecimal(SubSeq(s, 1, Len(s) - 1)) + DigitValue(s[Len(s)])

\* the plan whose layout is edited, and another one in the same directory
PlanFile == "plan.md"
OtherPlanFile == "notes.md"

\* get_snapshot_prefix
get_snapshot_prefix(plan) == plan \o ".layout"

\* a file name "{prefix}.{timestamp}.json": the prefix, the dots, the digits
\* of the timestamp one by one, and the extension
SnapshotName(plan, timestamp) ==
    <<get_snapshot_prefix(plan), ".">> \o Decimal(timestamp) \o <<".", "json">>

\* the timestamp in a file name: the text between the last two dots, parsed
TimestampOf(name) == ParseDecimal(SubSeq(name, 3, Len(name) - 2))

\* milliseconds since the epoch read by SystemTime::now(), on a machine whose
\* clock started at the epoch: the readings are one snapshot interval apart
\* and pass 10^7 ms, where the decimal text gets one digit longer (as it did
\* at 10^12 ms and will at 10^13 ms)
Clock == {9100000 + k * MIN_SNAPSHOT_INTERVAL_SECS * 1000 : k \in 0..MaxTicks}

\* the byte of a character of a file name
Byte(c) == IF c = "." THEN 46 ELSE IF c \in Digits THEN 48 + DigitValue(c) ELSE 128

\* the order of Vec<PathBuf>::sort on files of one directory: byte by byte,
\* and a name that is the start of another one comes first
RECURSIVE NameLess(_, _)
NameLess(a, b) ==
    IF Len(b) = 0 THEN FALSE
    ELSE IF Len(a) = 0 THEN TRUE
    ELSE IF a[1] = b[1] THEN NameLess(Tail(a), Tail(b))
    ELSE Byte(a[1]) < Byte(b[1])

\* the sorted list with one more name put in its place
RECURSIVE SortedInsert(_, _)
SortedInsert(name, sorted) ==
    IF sorted = <<>> THEN <<name>>
    ELSE IF NameLess(name, Head(sorted)) THEN <<name>> \o sorted
    ELSE <<Head(sorted)>> \o SortedInsert(name, Tail(sorted))

\* the names of a set in the order of NameLess
RECURSIVE Sorted(_)
Sorted(names) ==
    IF names = {} THEN <<>>
    ELSE LET name == CHOOSE n \in names : TRUE
         IN SortedInsert(name, Sorted(names \ {name}))

\* list_snapshots: the files of the directory that start with the plan's
\* prefix and end in .json, sorted by name
list_snapshots(dir, plan) ==
    Sorted({name \in dir : /\ name[1] = get_snapshot_prefix(plan)
                           /\ name[Len(name)] = "json"})

\* get_latest_snapshot_time: the timestamp in the last name of the list
get_latest_snapshot_time(dir, plan) ==
    LET snapshots == list_snapshots(dir, plan)
    IN IF Len(snapshots) = 0 THEN None
       ELSE Some(TimestampOf(snapshots[Len(snapshots)]))

\* should_create_snapshot
should_create_snapshot(dir, plan, now) ==
    LET last == get_latest_snapshot_time(dir, plan)
    IN IF last = None THEN TRUE
       ELSE LET elapsed_ms == IF now >= last[1] THEN now - last[1] ELSE 0
            IN elapsed_ms \div 1000 >= MIN_SNAPSHOT_INTERVAL_SECS

\* rotate_snapshots: removes the first names of the list down to
\* MAX_SNAPSHOTS; removable = FALSE: the first remove_file fails
rotate_snapshots(dir, plan, removable) ==
    LET snapshots == list_snapshots(dir, plan)
        to_remove == Len(snapshots) - MAX_SNAPSHOTS
    IN IF Len(snapshots) <= MAX_SNAPSHOTS THEN [dir |-> dir, res |-> "Ok"]
       ELSE IF ~removable THEN [dir |-> dir, res |-> "RemoveFailed"]
       ELSE [dir |-> dir \ {snapshots[i] : i \in 1..to_remove}, res |-> "Ok"]

\* create_snapshot: written = FALSE: the directory or the file cannot be written
create_snapshot(dir, plan, force, now, written, removable) ==
    IF ~force /\ ~should_create_snapshot(dir, plan, now)
    THEN [dir |-> dir, res |-> "Ok"]
    ELSE IF ~written THEN [dir |-> dir, res |-> "WriteFailed"]
    ELSE rotate_snapshots(dir \cup {SnapshotName(plan, now)}, plan, removable)


\* ------------------------------------------------------- layouts (layout.rs)
DEFAULT_NODE_WIDTH == 280
DEFAULT_NODE_HEIGHT == 80
DEFAULT_PHASE_HEIGHT == 50
GRID_SPACING_X == 320
GRID_SPACING_Y == 100
GRID_COLUMNS == 3
GRID_START_X == 50
GRID_START_Y == 50
\* the longest list of nodes a plan is parsed into
MaxNodes == 3

NodeLayout(x, y, width, height) == [x |-> x, y |-> y, width |-> width, height |-> height]

\* a LayoutMap without entries
EmptyLayouts == [id \in {} |-> NodeLayout(0, 0, 0, 0)]

\* LayoutFile::default()
LayoutFile_default ==
    [version |-> 1, plan_hash |-> "", layouts |-> EmptyLayouts, last_modified |-> None]

\* HashMap::insert and HashMap::remove
Insert(map, key, value) ==
    [k \in DOMAIN map \cup {key} |-> IF k = key THEN value ELSE map[k]]
Remove(map, keys) == [k \in DOMAIN map \ keys |-> map[k]]

\* the nodes a parsed plan can hold: a phase, a task of it, a task without a
\* phase, and a node of another type
NodeInfos ==
    {[id |-> "p1", node_type |-> "phase", phase_id |-> None],
     [id |-> "t1", node_type |-> "task", phase_id |-> Some("p1")],
     [id |-> "t2", node_type |-> "task", phase_id |-> None],
     [id |-> "n1", node_type |-> "note", phase_id |-> None]}
\* the lists of nodes a plan is parsed into (an id can come twice)
PlanNodes == UNION {[1..n -> NodeInfos] : n \in 0..MaxNodes}
PlanHashes == {"h1"}
\* the layout the user arranged by hand, with an entry for a node (old) that
\* the plan no longer has
EditedLayout ==
    [version |-> 1, plan_hash |-> "h0", last_modified |-> None,
     layouts |-> ("p1" :> NodeLayout(7, 9, 300, 60)) @@ ("old" :> NodeLayout(400, 9, 280, 80))]
\* the orders in which a HashMap can hand out its keys
KeyOrders ==
    {<<"n1", "old", "p1", "t1", "t2">>, <<"t2", "t1", "p1", "old", "n1">>}

\* the nodes of a list that satisfy a test, as positions
Count(nodes, Test(_)) == Cardinality({i \in 1..Len(nodes) : Test(nodes[i])})

\* calculate_auto_position (the coordinates are whole numbers)
calculate_auto_position(node, existing_layouts, nodes) ==
    LET IsPhase(n) == n.node_type = "phase"
        phase_step == DEFAULT_PHASE_HEIGHT + GRID_SPACING_Y * 3
    IN
    CASE node.node_type = "phase" ->
           LET Placed(n) == IsPhase(n) /\ n.id \in DOMAIN existing_layouts
               phase_count == Count(nodes, Placed)
           IN NodeLayout(GRID_START_X, GRID_START_Y + phase_count * phase_step,
                         DEFAULT_NODE_WIDTH, DEFAULT_PHASE_HEIGHT)
      [] node.node_type = "task" ->
           LET phase_id == IF node.phase_id = None THEN "" ELSE node.phase_id[1]
               phases == SelectSeq(nodes, IsPhase)
               hits == {i \in 1..Len(phases) : phases[i].id = phase_id}
               phase_index == IF hits = {} THEN 0
                              ELSE (CHOOSE i \in hits : \A j \in hits : i <= j) - 1
               phase_y == IF phase_id \in DOMAIN existing_layouts
                          THEN existing_layouts[phase_id].y
                          ELSE GRID_START_Y + phase_index * phase_step
               InPhase(n) == /\ n.node_type = "task"
                             /\ n.phase_id = Some(phase_id)
                             /\ n.id \in DOMAIN existing_layouts
               task_index == Count(nodes, InPhase)
               row == task_index \div GRID_COLUMNS
               col == task_index % GRID_COLUMNS
           IN NodeLayout(GRID_START_X + col * GRID_SPACING_X,
                         phase_y + DEFAULT_PHASE_HEIGHT + GRID_SPACING_Y
                            + row * GRID_SPACING_Y,
                         DEFAULT_NODE_WIDTH, DEFAULT_NODE_HEIGHT)
      [] OTHER ->
           LET count == Cardinality(DOMAIN existing_layouts)
               row == count \div GRID_COLUMNS
               col == count % GRID_COLUMNS
           IN NodeLayout(GRID_START_X + col * GRID_SPACING_X,
                         GRID_START_Y + row * GRID_SPACING_Y,
                         DEFAULT_NODE_WIDTH, DEFAULT_NODE_HEIGHT)

\* the loops of merge_layout over the phases and over the tasks: each node of
\* todo without an entry gets an auto position and is named in added
RECURSIVE add_missing(_, _, _, _)
add_missing(layouts, added, todo, nodes) ==
    IF todo = <<>> THEN [layouts |-> layouts, added |-> added]
    ELSE LET node == Head(todo)
         IN IF node.id \in DOMAIN layouts
            THEN add_missing(layouts, added, Tail(todo), nodes)
            ELSE add_missing(
                    Insert(layouts, node.id,
                           calculate_auto_position(node, layouts, nodes)),
                    Append(added, node.id), Tail(todo), nodes)

\* a merge_layout that keeps the entries of nodes the plan no longer has
merge_layout_keeping(layout, nodes, plan_hash, order, now) ==
    LET IsPhase(n) == n.node_type = "phase"
        IsTask(n) == n.node_type = "task"
        with_phases == add_missing(layout.layouts, <<>>, SelectSeq(nodes, IsPhase), nodes)
        with_tasks == add_missing(with_phases.layouts, with_phases.added,
                                  SelectSeq(nodes, IsTask), nodes)
    IN [layout |-> [layout EXCEPT !.layouts = with_tasks.layouts,
                                  !.plan_hash = plan_hash,
                                  !.last_modified = Some(now)],
        added_nodes |-> with_tasks.added,
        removed_nodes |-> <<>>]

\* merge_layout on the layout that read_layout returned.  order is the order
\* in which the map hands out its keys, now the reading of the clock that
\* goes into last_modified (None: the empty text of a default layout)
merge_layout(layout, nodes, plan_hash, order, now) ==
    LET valid_ids == {nodes[i].id : i \in 1..Len(nodes)}
        IsOrphan(id) == id \in DOMAIN layout.layouts /\ id \notin valid_ids
        orphan_ids == SelectSeq(order, IsOrphan)
        kept == Remove(layout.layouts, {orphan_ids[i] : i \in 1..Len(orphan_ids)})
        IsPhase(n) == n.node_type = "phase"
        IsTask(n) == n.node_type = "task"
        with_phases == add_missing(kept, <<>>, SelectSeq(nodes, IsPhase), nodes)
        with_tasks == add_missing(with_phases.layouts, with_phases.added,
                                  SelectSeq(nodes, IsTask), nodes)
    IN [layout |-> [layout EXCEPT !.layouts = with_tasks.layouts,
                                  !.plan_hash = plan_hash,
                                  !.last_modified = Some(now)],
        added_nodes |-> with_tasks.added,
        removed_nodes |-> orphan_ids]

\* read_layout: the default when the file is not there
read_layout == IF layout_file = None THEN LayoutFile_default ELSE layout_file[1]

\* the merge_layout command: the result goes to the frontend
merge_layout_call(nodes, plan_hash, order, now) ==
    /\ merge_result' = Some(merge_layout(read_layout, nodes, plan_hash, order, now))
    /\ UNCHANGED <<ptyVars, agentVars, chat, strip_input, strip_result, threadVars,
                   history_dir, layout_file>>

\* the write_layout command: a snapshot of the layout on disk when it has
\* entries (whether the snapshot succeeds is not looked at), then the write
write_layout(layout, now, snapshot_written, removable, written) ==
    /\ history_dir' =
          IF layout_file # None /\ DOMAIN layout_file[1].layouts # {}
          THEN create_snapshot(history_dir, PlanFile, FALSE, now, snapshot_written,
                               removable).dir
          ELSE history_dir
    /\ layout_file' = IF written THEN Some(layout) ELSE layout_file
    /\ UNCHANGED <<ptyVars, agentVars, chat, strip_input, strip_result, threadVars,
                   merge_result>>

\* the layouts the frontend writes: what the last merge returned, or the
\* layout as the user arranged it
Written == {EditedLayout} \cup {merge_result[i].layout : i \in DOMAIN merge_result}

\* the plans the frontend merges into the layout
MergedPlans ==
    {<<>>,
     <<[id |-> "p1", node_type |-> "phase", phase_id |-> None]>>,
     <<[id |-> "t1", node_type |-> "task", phase_id |-> Some("p1")],
       [id |-> "p1", node_type |-> "phase", phase_id |-> None],
       [id |-> "n1", node_type |-> "note", phase_id |-> None]>>}

\* the directory holds a snapshot of another plan from the start
InitFiles ==
    /\ sessions = [id \in SessionIds |-> 0]
    /\ objs = <<>>
    /\ running = <<>>
    /\ spawned = <<>>
    /\ ptyLog = <<>>
    /\ current_session = <<>>
    /\ streaming = FALSE
    /\ output_buffer = <<>>
    /\ chatLog = <<>>
    /\ statusLog = <<>>
    /\ chat = <<>>
    /\ strip_input = <<>>
    /\ strip_result = <<>>
    /\ lock = 0
    /\ calls = [t \in Threads |-> Idle]
    /\ tasks = [t \in Threads |-> Idle]
    /\ readLog = <<>>
    /\ history_dir = {SnapshotName(OtherPlanFile, 9100000)}
    /\ layout_file = <<>>
    /\ merge_result = <<>>

FilesNext ==
    \/ \E nodes \in MergedPlans, plan_hash \in PlanHashes, order \in KeyOrders :
          merge_layout_call(nodes, plan_hash, order, 9100000)
    \/ \E layout \in Written, now \in Clock, snapshot_written \in BOOLEAN,
          removable \in BOOLEAN, written \in BOOLEAN :
          write_layout(layout, now, snapshot_written, removable, written)

\* the layout file of a plan and its snapshots
SpecFiles == InitFiles /\ [][FilesNext]_vars



\* ================================================================ claims
SpawnOutcomes == {"ok", "spawn_failed", "reader_failed"}

\* ---------------------------------------------------------------- C1
\* C1: after create_session(id), spawn_in_session, write_to_session,
\* stop_session and remove_session, in that order and whatever the calls in
\* between returned, the registry holds no entry for id and the flag of the
\* session created is false; remove_session leaves that outcome from every
\* state; and the flag of a session that is out of the registry with its
\* flag false is never true again.
C1_AfterRemove ==
    /\ [](\A id \in PtyIds, opened \in BOOLEAN, outcome \in SpawnOutcomes,
             data \in WriteData :
            \A delivered \in Delivered(data) :
               LET created == create_session(State, id, opened).st
                   started == spawn_in_session(created, id, outcome).st
                   written == write_to_session(started, id, data, delivered).st
                   stopped == stop_session(written, id).st
                   removed == remove_session(stopped, id)
               IN /\ removed.res = "Ok"
                  /\ removed.st.sessions[id] = 0
                  /\ opened => ~removed.st.running[Len(objs) + 1])
    /\ [](\A id \in PtyIds :
            LET removed == remove_session(State, id)
            IN /\ removed.res = "Ok"
               /\ removed.st.sessions[id] = 0
               /\ sessions[id] # 0 => ~removed.st.running[sessions[id]])
    /\ [][\A o \in Objs : (Dropped(o) /\ ~running[o]) => ~running'[o]]_vars

\* a session that was created, spawned in, written to and removed
C1_Witness ==
    \E o \in Objs :
        /\ sessions[objs[o].id] = 0
        /\ objs[o].written # <<>>
        /\ \E k \in Spawns : spawned[k].obj = o
        /\ ~running[o]

\* ---------------------------------------------------------------- C2
\* C2: no step drops a PtySession from the registry while its running flag
\* is true.
C2_NeverDroppedRunning ==
    [][\A o \in Objs : (~Dropped(o) /\ Dropped(o)') => ~running'[o]]_vars

\* ---------------------------------------------------------------- C3
\* C3: while an AgentSession is current, agent_connect returns an error and
\* leaves the current session, the registry and every PTY session as they were.
C3_ConnectRejected ==
    current_session # None =>
        \A agent_type \in AgentType, cwd \in Cwds, millis \in Times,
           env \in ConnectEnvs :
            LET r == agent_connect(State, agent_type, cwd, millis, env)
            IN /\ r.res # "Ok"
               /\ r.st.current_session = current_session
               /\ r.st.sessions = sessions
               /\ r.st.objs = objs
               /\ r.st.running = running
               /\ r.st.spawned = spawned

\* ---------------------------------------------------------------- C4
\* C4: when agent_connect returns an error after it created its PTY session,
\* that session is not in the registry.
C4_FailedConnectCleansUp ==
    \A agent_type \in AgentType, cwd \in Cwds, millis \in Times,
       env \in ConnectEnvs :
        LET r == agent_connect(State, agent_type, cwd, millis, env)
        IN (r.res # "Ok" /\ Len(r.st.objs) > Len(objs)) =>
               r.st.sessions[AgentSessionId(agent_type, millis)] # Len(r.st.objs)

\* ---------------------------------------------------------------- C5
\* C5: while streaming is true, agent_send_message returns AlreadyStreaming
\* and changes nothing: the buffer keeps its content, nothing is written to
\* the PTY and no event is emitted.
C5_AlreadyStreaming ==
    streaming =>
        \A message \in Messages, emitted \in BOOLEAN :
            \A delivered \in Delivered(message \o <<NL>>) :
                LET r == agent_send_message(State, message, delivered, emitted)
                IN /\ r.res = "AlreadyStreaming"
                   /\ r.st = State

\* a message was accepted, output has arrived since, and the PTY session is
\* still there to be written to
C5_Witness ==
    /\ streaming
    /\ current_session # None
    /\ output_buffer # <<>>
    /\ sessions[current_session[1].id] # 0
    /\ \E i \in DOMAIN chatLog : chatLog[i].event_type = "message_start"

\* ---------------------------------------------------------------- C6
\* C6: on the chat-stream channel the first event is message_start; a
\* content_block_delta follows a content_block_start or another delta; a
\* content_block_stop follows a content_block_start or a delta; a
\* message_stop follows a content_block_stop (or a plan_update, or the
\* message_start of a turn without content); and message_stop ends the turn:
\* what follows it is a message_start.
C6_LiveEventOrder ==
    \A i \in DOMAIN chatLog :
        LET e == chatLog[i].event_type
        IN /\ (i = 1 /\ Len(chatLog) < MaxChatEvents) => e = "message_start"
           /\ i > 1 =>
                LET p == chatLog[i - 1].event_type
                IN /\ e = "message_start" => p = "message_stop"
                   /\ e = "content_block_start" =>
                         p \in {"message_start", "content_block_stop"}
                   /\ e = "content_block_delta" =>
                         p \in {"content_block_start", "content_block_delta"}
                   /\ e = "content_block_stop" =>
                         p \in {"content_block_start", "content_block_delta"}
                   /\ e = "message_stop" =>
                         p \in {"content_block_stop", "plan_update", "message_start"}

\* ---------------------------------------------------------------- C7
RECURSIVE Concat(_)
Concat(ss) == IF ss = <<>> THEN <<>> ELSE Head(ss) \o Concat(Tail(ss))

\* the events of a whole turn, as the claim lists them
FullTurn(inv) ==
    LET ev == inv.emitted
        plan == is_plan_update_command(inv.message)
        n == Cardinality({j \in DOMAIN ev : ev[j].event_type = "content_block_delta"})
    IN /\ Len(ev) = 4 + n + (IF plan # None THEN 1 ELSE 0)
       /\ ev[1] = StreamEvent("message_start", None, None)
       /\ ev[2] = StreamEvent("content_block_start", None, None)
       /\ \A j \in 3..(2 + n) :
             /\ ev[j].event_type = "content_block_delta"
             /\ ev[j].plan_update = None
             /\ ev[j].content # None
             /\ Len(ev[j].content[1]) \in 1..3
             /\ j < 2 + n => Len(ev[j].content[1]) = 3
       /\ Concat([j \in 1..n |-> ev[j + 2].content[1]]) = response_for(inv.message)
       /\ ev[3 + n] = StreamEvent("content_block_stop", None, None)
       /\ plan # None =>
             ev[4 + n] = StreamEvent("plan_update", None,
                                     Some(PlanUpdate(plan[1][1], plan[1][2])))
       /\ ev[Len(ev)] = StreamEvent("message_stop", None, None)

\* C7 as stated: an invocation that has returned has emitted the whole turn.
C7_WholeTurn ==
    \A i \in Invocations : chat[i].pc = "done" => FullTurn(chat[i])

\* C7, with the failing emit: an invocation that returns Ok has emitted
\* exactly message_start, content_block_start, one delta per chunk of at
\* most 3 characters (together the response), content_block_stop, a
\* plan_update iff the message is a plan update command, and message_stop;
\* an invocation returns an error only from an emit that failed, having
\* emitted a proper prefix of a whole turn; and whatever an invocation has
\* emitted so far is a prefix of a whole turn.
C7_WholeTurnWhenOk ==
    \A i \in Invocations :
        LET inv == chat[i]
        IN /\ inv.res = "Ok" <=> (inv.pc = "done" /\ FullTurn(inv))
           /\ inv.pc = "done" => inv.res \in {"Ok", "EmitFailed"}
           /\ inv.res = "EmitFailed" => ~FullTurn(inv)
           /\ Len(inv.emitted) >= 1 =>
                 inv.emitted[1] = StreamEvent("message_start", None, None)
           /\ \A j \in 2..Len(inv.emitted) :
                 LET e == inv.emitted[j].event_type
                     p == inv.emitted[j - 1].event_type
                 IN /\ e = "content_block_start" => p = "message_start"
                    /\ e = "content_block_delta" =>
                          p \in {"content_block_start", "content_block_delta"}
                    /\ e = "content_block_stop" => p = "content_block_delta"
                    /\ e = "plan_update" => p = "content_block_stop"
                    /\ e = "message_stop" =>
                          /\ j = Len(inv.emitted)
                          /\ inv.res = "Ok"
                    /\ e # "message_start"

\* an invocation for a plan update command ran to its end
C7_Witness ==
    \E i \in Invocations :
        /\ chat[i].res = "Ok"
        /\ is_plan_update_command(chat[i].message) # None
        /\ Len(response_for(chat[i].message)) % chunk_size # 0

C9_SingleChild ==
    /\ \A id \in PtyIds, outcome \in SpawnOutcomes :
          (sessions[id] # 0 /\ running[sessions[id]]) =>
              LET r == spawn_in_session(State, id, outcome)
              IN r.res # "Ok" /\ r.st.spawned = spawned
    /\ \A o \in Objs :
          /\ Cardinality(LiveChildren(o)) <= 1
          /\ Cardinality(LiveReaders(o)) <= 1

\* ---------------------------------------------------------------- C10
\* C10: stop_session returns Ok for every id (absent, running or stopped),
\* changes nothing but the flag of the session under id, which it makes
\* false, leaves the registry as it is, and a second stop changes nothing.
C10_StopIdempotent ==
    \A id \in SessionIds :
        LET first == stop_session(State, id)
            second == stop_session(first.st, id)
        IN /\ first.res = "Ok"
           /\ second.res = "Ok"
           /\ second.st = first.st
           /\ first.st.sessions = sessions
           /\ first.st = [State EXCEPT !.running =
                             [o \in DOMAIN running |->
                                 IF o = sessions[id] THEN FALSE ELSE running[o]]]

\* stop has acted on a running session (its reader is still inside the loop),
\* next to a stopped session and an id that is absent
C10_Witness ==
    /\ \E id \in PtyIds :
          /\ sessions[id] # 0
          /\ ~running[sessions[id]]
          /\ Cardinality(LiveReaders(sessions[id])) = 1
          /\ \A k \in LiveReaders(sessions[id]) : spawned[k].pc = "read"
    /\ \E id \in PtyIds : sessions[id] = 0

\* ---------------------------------------------------------------- C11
\* C11: with an id that is not in the registry, spawn_in_session,
\* write_to_session and resize_session return SessionNotFound naming the id
\* and change nothing: no child or reader is started, nothing is written, and
\* the registry and every running flag are as before.
C11_UnknownId ==
    \A id \in SessionIds :
        sessions[id] = 0 =>
            /\ \A outcome \in SpawnOutcomes :
                  LET r == spawn_in_session(State, id, outcome)
                  IN r.res = "SessionNotFound" /\ r.val = id /\ r.st = State
            /\ \A data \in WriteData :
                  \A delivered \in Delivered(data) :
                     LET r == write_to_session(State, id, data, delivered)
                     IN r.res = "SessionNotFound" /\ r.val = id /\ r.st = State
            /\ \A size \in Sizes, resized \in BOOLEAN :
                  LET r == resize_session(State, id, size, resized)
                  IN r.res = "SessionNotFound" /\ r.val = id /\ r.st = State

\* an id that was removed from the registry, next to a session that is
\* registered, running and written to
C11_Witness ==
    /\ \E o \in Objs : sessions[objs[o].id] = 0
    /\ \E id \in PtyIds :
          /\ sessions[id] # 0
          /\ running[sessions[id]]
          /\ objs[sessions[id]].written # <<>>

\* ---------------------------------------------------------------- C12
\* C12: for a CLI-backed agent, agent_connect returns CredentialsMissing when
\* no credentials are found (whether or not the CLI is there) and
\* CliUnavailable when credentials are found and the CLI is not located (by
\* either lookup), and in both cases changes nothing: no PTY session is
\* created, the registry and the current session are as before and no
\* agent-status event is emitted.
C12_CredentialGate ==
    \A agent_type \in {ClaudeCode, Codex}, cwd \in Cwds, millis \in Times,
       env \in GateEnvs :
        LET r == agent_connect(State, agent_type, cwd, millis, env)
        IN /\ ~env.has_creds =>
                 r.res = "CredentialsMissing" /\ r.st = State
           /\ (env.has_creds /\ ~(env.cli1 /\ env.cli2)) =>
                 r.res = "CliUnavailable" /\ r.st = State

\* nothing is connected, no status event was ever emitted, and the registry
\* holds a session, when a connect meets a failing gate
C12_Witness ==
    /\ current_session = None
    /\ statusLog = <<>>
    /\ \E id \in AgentIds : sessions[id] # 0
    /\ \E env \in GateEnvs :
          /\ ~env.has_creds
          /\ agent_connect(State, ClaudeCode, "/tmp", 0, env).res = "CredentialsMissing"

\* ---------------------------------------------------------------- C13
\* C13: agent_connect for OpenCode returns UnsupportedTransport whatever the
\* probes answer, and no PtySession is constructed during the call: the
\* sessions ever constructed, the registry and all the rest are as before.
C13_OpenCodeUnsupported ==
    \A cwd \in Cwds, millis \in Times, env \in GateEnvs \cup ConnectEnvs :
        LET r == agent_connect(State, OpenCode, cwd, millis, env)
        IN /\ r.res = "UnsupportedTransport"
           /\ r.st.objs = objs
           /\ r.st = State

\* an OpenCode connect arrives while a CLI-backed agent is connected and
\* its PTY session runs
C13_Witness ==
    /\ current_session # None
    /\ sessions[current_session[1].id] # 0
    /\ running[sessions[current_session[1].id]]
    /\ \A env \in GateEnvs :
          agent_connect(State, OpenCode, "/tmp", 0, env).res = "UnsupportedTransport"

\* ---------------------------------------------------------------- C14
\* C14: with no current AgentSession, agent_disconnect returns
\* NoActiveSession and changes nothing: no event is emitted, the registry is
\* as before and the streaming flag and the buffer keep their values.
C14_DisconnectNoSession ==
    current_session = None =>
        \A emitted \in BOOLEAN :
            LET r == agent_disconnect(State, emitted)
            IN /\ r.res = "NoActiveSession"
               /\ r.st = State

\* nothing is connected after a disconnect, while the buffer holds output
\* and the registry holds a session
C14_Witness ==
    /\ current_session = None
    /\ output_buffer # <<>>
    /\ \E id \in AgentIds : sessions[id] # 0
    /\ statusLog # <<>>
    /\ ~statusLog[Len(statusLog)].connected

\* ---------------------------------------------------------------- C15
\* the answers with which a connect succeeds
ConnectOk ==
    [has_creds |-> TRUE, cli1 |-> TRUE, cli2 |-> TRUE, opened |-> TRUE,
     outcome |-> "ok", emitted |-> TRUE]

\* C15: with a current AgentSession, agent_disconnect clears the running
\* flag of the PTY session registered under the session's id and removes the
\* id from the registry, sets the current session to none and streaming to
\* false, makes one emit of an agent-status event with connected = false
\* (appended to the log when the emit succeeds), and changes nothing else,
\* whether or not a turn was under way.  While nothing is connected the
\* streaming flag is false, so after a successful connect no send_message is
\* rejected with AlreadyStreaming.
C15_Disconnect ==
    /\ current_session # None =>
          \A emitted \in BOOLEAN :
              LET id == current_session[1].id
                  r == agent_disconnect(State, emitted)
              IN /\ r.res = IF emitted THEN "Ok" ELSE "EmitFailed"
                 /\ r.st.sessions = [sessions EXCEPT ![id] = 0]
                 /\ r.st.running =
                       [o \in DOMAIN running |->
                           IF o = sessions[id] THEN FALSE ELSE running[o]]
                 /\ r.st.current_session = None
                 /\ ~r.st.streaming
                 /\ r.st.statusLog =
                       IF emitted
                       THEN Append(statusLog,
                                AgentStatusEvent(id, FALSE, "Disconnected"))
                       ELSE statusLog
                 /\ r.st.objs = objs
                 /\ r.st.spawned = spawned
                 /\ r.st.ptyLog = ptyLog
                 /\ r.st.output_buffer = output_buffer
                 /\ r.st.chatLog = chatLog
    /\ current_session = None =>
          /\ ~streaming
          /\ \A agent_type \in {ClaudeCode, Codex}, cwd \in Cwds, millis \in Times :
                LET c == agent_connect(State, agent_type, cwd, millis, ConnectOk)
                IN /\ c.res = "Ok"
                   /\ \A message \in Messages, emitted \in BOOLEAN :
                         \A delivered \in Delivered(message \o <<NL>>) :
                            agent_send_message(c.st, message, delivered,
                                               emitted).res # "AlreadyStreaming"

\* a disconnect in the middle of a turn: the last chat-stream event is the
\* message_start of a message that was written to a PTY session now stopped
\* and out of the registry, and the last status event says disconnected
C15_Witness ==
    /\ current_session = None
    /\ ~streaming
    /\ statusLog # <<>>
    /\ ~statusLog[Len(statusLog)].connected
    /\ chatLog # <<>>
    /\ chatLog[Len(chatLog)].event_type = "message_start"
    /\ \E o \in Objs :
          /\ objs[o].id = statusLog[Len(statusLog)].session_id
          /\ Dropped(o)
          /\ ~running[o]
          /\ objs[o].written # <<>>

\* ---------------------------------------------------------------- C16
\* C16: with no current AgentSession, agent_send_message returns
\* NoActiveSession and changes nothing: the streaming flag and the buffer
\* keep their values, no PTY session is written to and no chat-stream event
\* is emitted.
C16_SendNoSession ==
    current_session = None =>
        \A message \in Messages, emitted \in BOOLEAN :
            \A delivered \in Delivered(message \o <<NL>>) :
                LET r == agent_send_message(State, message, delivered, emitted)
                IN /\ r.res = "NoActiveSession"
                   /\ r.st = State

\* nothing is connected, the buffer holds output, and the PTY session of an
\* agent is still registered and running
C16_Witness ==
    /\ current_session = None
    /\ output_buffer # <<>>
    /\ \E id \in AgentIds : sessions[id] # 0 /\ running[sessions[id]]

\* ---------------------------------------------------------------- C17
\* C17 as stated: whenever a session is current and streaming is false,
\* agent_send_message(text) empties the buffer, sets streaming, appends text
\* and a newline to what was written to the PTY session under the current
\* session's id, and emits one message_start.
C17_SendAlwaysWrites ==
    (current_session # None /\ ~streaming) =>
        \A message \in Messages :
            \A delivered \in Delivered(message \o <<NL>>) :
                LET o == sessions[current_session[1].id]
                    r == agent_send_message(State, message, delivered, TRUE)
                IN /\ r.st.output_buffer = <<>>
                   /\ r.st.streaming
                   /\ o # 0
                   /\ r.st.objs[o].written = objs[o].written \o message \o <<NL>>
                   /\ r.st.chatLog =
                         Append(chatLog, StreamEvent("message_start", None, None))

\* C17, with the write that fails: when a session is current and streaming
\* is false, agent_send_message(text) empties the buffer and sets streaming;
\* if the PTY session under the current session's id is there and takes the
\* write, exactly text and one newline are appended to it and one emit of
\* message_start is made (appended to the log when it succeeds); if the PTY
\* session is gone or the write fails, the call returns that error and no
\* message_start is emitted.  Nothing else changes.
C17_AcceptedSend ==
    (current_session # None /\ ~streaming) =>
        \A message \in Messages, emitted \in BOOLEAN :
            \A delivered \in Delivered(message \o <<NL>>) :
                LET o == sessions[current_session[1].id]
                    input == message \o <<NL>>
                    wrote == o # 0 /\ delivered = Len(input) + 1
                    r == agent_send_message(State, message, delivered, emitted)
                IN /\ r.st.output_buffer = <<>>
                   /\ r.st.streaming
                   /\ wrote =>
                         /\ r.res = IF emitted THEN "Ok" ELSE "EmitFailed"
                         /\ r.st.objs = [objs EXCEPT ![o].written = @ \o input]
                         /\ r.st.chatLog =
                               IF emitted
                               THEN Append(chatLog,
                                        StreamEvent("message_start", None, None))
                               ELSE chatLog
                   /\ ~wrote =>
                         /\ r.res = IF o = 0 THEN "SessionNotFound" ELSE "WriteFailed"
                         /\ o = 0 => r.st.objs = objs
                         /\ o # 0 => \E n \in 0..Len(input) :
                               r.st.objs = [objs EXCEPT ![o].written =
                                               @ \o SubSeq(input, 1, n)]
                         /\ r.st.chatLog = chatLog
                   /\ r.st.sessions = sessions
                   /\ r.st.running = running
                   /\ r.st.spawned = spawned
                   /\ r.st.ptyLog = ptyLog
                   /\ r.st.current_session = current_session
                   /\ r.st.statusLog = statusLog

\* a message was accepted: streaming, the buffer empty, the message and a
\* newline written to the current session's PTY, message_start the last event
C17_Witness ==
    /\ current_session # None
    /\ streaming
    /\ output_buffer = <<>>
    /\ sessions[current_session[1].id] # 0
    /\ objs[sessions[current_session[1].id]].written = <<"h", NL>>
    /\ chatLog # <<>>
    /\ chatLog[Len(chatLog)].event_type = "message_start"

\* ---------------------------------------------------------------- C18
\* C18: agent_process_output(raw) appends raw as it is to the buffer; when
\* the text left after stripping is empty it emits nothing and returns Ok,
\* otherwise it makes one emit of a content_block_delta carrying that text
\* (appended to the log when the emit succeeds); it changes nothing else:
\* not the streaming flag, the current session, the registry or a session.
C18_ProcessOutput ==
    \A data \in RawChunks, emitted \in BOOLEAN :
        LET r == agent_process_output(State, data, emitted)
            clean == strip_ansi_codes(data)
        IN /\ r.st.output_buffer = output_buffer \o data
           /\ r.st.chatLog =
                 IF clean # <<>> /\ emitted
                 THEN Append(chatLog,
                          StreamEvent("content_block_delta", Some(clean), None))
                 ELSE chatLog
           /\ r.res = IF clean # <<>> /\ ~emitted THEN "EmitFailed" ELSE "Ok"
           /\ r.st = [State EXCEPT !.output_buffer = r.st.output_buffer,
                                   !.chatLog = r.st.chatLog]

\* a chunk that is all escape sequence was taken into the buffer as it came
\* and no delta was emitted for it, in the middle of a turn
C18_Witness ==
    /\ output_buffer = <<ESC, "[", "m">>
    /\ streaming
    /\ chatLog # <<>>
    /\ chatLog[Len(chatLog)].event_type = "message_start"

\* ---------------------------------------------------------------- C19
\* C19: agent_finish_response sets streaming to false and makes one emit of
\* message_stop on every call, the flag true or false before (the event is
\* appended to the log when the emit succeeds); it changes nothing else; and
\* a second call adds one more message_stop and leaves the rest of the state
\* as the first call left it.
C19_FinishResponse ==
    \A emitted \in BOOLEAN, again \in BOOLEAN :
        LET stop_event == StreamEvent("message_stop", None, None)
            first == agent_finish_response(State, emitted)
            second == agent_finish_response(first.st, again)
        IN /\ first.res = IF emitted THEN "Ok" ELSE "EmitFailed"
           /\ first.st =
                 [State EXCEPT !.streaming = FALSE,
                               !.chatLog = IF emitted THEN Append(@, stop_event)
                                           ELSE @]
           /\ second.res = IF again THEN "Ok" ELSE "EmitFailed"
           /\ second.st =
                 [first.st EXCEPT !.chatLog = IF again THEN Append(@, stop_event)
                                              ELSE @]

\* finish_response was called with the flag already false: two message_stop
\* events in a row, with a session connected and output in the buffer
C19_Witness ==
    /\ ~streaming
    /\ current_session # None
    /\ output_buffer # <<>>
    /\ Len(chatLog) = 2
    /\ chatLog[1].event_type = "message_stop"
    /\ chatLog[2].event_type = "message_stop"

\* ---------------------------------------------------------------- C20
\* position i of s lies in an escape sequence: an ESC at or before it with
\* no ASCII letter strictly between the two
InEscape(s, i) ==
    \E j \in 1..i :
        /\ s[j] = ESC
        /\ \A m \in (j + 1)..(i - 1) : s[m] \notin AsciiLetters

\* s without the positions that lie in an escape sequence
RECURSIVE OutsideEscapes(_, _)
OutsideEscapes(s, i) ==
    IF i > Len(s) THEN <<>>
    ELSE (IF InEscape(s, i) THEN <<>> ELSE <<s[i]>>) \o OutsideEscapes(s, i + 1)

\* C20: for every text, strip_ansi_codes returns the text without each ESC
\* and what follows it up to and including the next ASCII letter, or up to
\* the end when no letter follows; the result holds no ESC; a text without
\* ESC comes back unchanged; and stripping the result again returns it.
C20_StripTotalIdempotent ==
    strip_result # None =>
        LET s == strip_input
            t == strip_result[1]
        IN /\ t = OutsideEscapes(s, 1)
           /\ \A i \in DOMAIN t : t[i] # ESC
           /\ (\A i \in DOMAIN s : s[i] # ESC) => t = s
           /\ strip_ansi_codes(t) = t

\* a text with a sequence that ends at a letter, a character kept after it,
\* and a sequence that runs to the end
C20_Witness ==
    /\ strip_input = <<ESC, "a", "1", ESC>>
    /\ strip_result = Some(<<"1">>)

\* ---------------------------------------------------------------- C21
\* C21: the registry holds at most one PTY session created by agent_connect,
\* and while an AgentSession is current no session created by agent_connect
\* other than the one with its id is in the registry.
C21_OneAgentSession ==
    LET held == {id \in AgentIds : sessions[id] # 0}
    IN /\ Cardinality(held) <= 1
       /\ current_session # None => held \subseteq {current_session[1].id}

\* ---------------------------------------------------------------- C22
\* C22: create_session with an id that is in the registry returns an error
\* and leaves the session registered under it, its flag, its children and its
\* readers as they were.
C22_DuplicateCreate ==
    \A id \in SessionIds, opened \in BOOLEAN :
        sessions[id] # 0 =>
            LET r == create_session(State, id, opened)
            IN /\ r.res # "Ok"
               /\ r.st.sessions[id] = sessions[id]
               /\ r.st.running = running
               /\ r.st.spawned = spawned

\* ---------------------------------------------------------------- C23
\* C23: write_to_session on a registered session in which no process was
\* ever spawned returns an error and delivers nothing.
C23_NoWriteBeforeSpawn ==
    \A id \in SessionIds, data \in WriteData :
        (sessions[id] # 0 /\ \A k \in Spawns : spawned[k].obj # sessions[id]) =>
            \A delivered \in Delivered(data) :
                LET r == write_to_session(State, id, data, delivered)
                IN /\ r.res # "Ok"
                   /\ r.st.objs = objs

\* ---------------------------------------------------------------- C27
\* C27: the exit code of a pty-exit event is absent exactly when wait()
\* failed, and a code that is present is the status the child exited with.
C27_ExitCodeActual ==
    \A i \in DOMAIN ptyLog :
        ptyLog[i].type = "pty-exit" =>
            /\ ptyLog[i].exit_code = -1 <=> ptyLog[i].status = -1
            /\ ptyLog[i].exit_code # -1 => ptyLog[i].exit_code = ptyLog[i].status

\* ---------------------------------------------------------------- C28
\* C28: with an id that is not in the registry, spawn_in_session,
\* write_to_session, resize_session and is_session_running return
\* SessionNotFound.
C28_LookupsFail ==
    \A id \in SessionIds :
        sessions[id] = 0 =>
            /\ \A outcome \in SpawnOutcomes :
                  spawn_in_session(State, id, outcome).res = "SessionNotFound"
            /\ \A data \in WriteData :
                  \A delivered \in Delivered(data) :
                     write_to_session(State, id, data, delivered).res
                        = "SessionNotFound"
            /\ \A size \in Sizes, resized \in BOOLEAN :
                  resize_session(State, id, size, resized).res = "SessionNotFound"
            /\ is_session_running(State, id).res = "SessionNotFound"

\* ---------------------------------------------------------------- C24
\* C24: no thread is inside a write to a PTY (write_all, flush) while the
\* registry lock is held, so that a stop_session, remove_session or
\* is_session_running that asks for the lock gets it.
C24_NoLockAcrossWrite ==
    \A t \in Threads : calls[t].pc = "write_all" => lock = 0


C26_ReaderEnd ==
    /\ \A k \in 1..MaxSpawns :
          /\ (k \in Spawns /\ spawned[k].pc = "store")
                ~> (k \in Spawns /\ spawned[k].pc = "wait"
                                   /\ ~running[spawned[k].obj])
          /\ (k \in Spawns /\ spawned[k].pc = "wait" /\ spawned[k].child = "exited")
                ~> (k \in Spawns /\ spawned[k].pc = "done")
    /\ [][\A k \in Spawns :
            /\ (spawned[k].pc = "read" /\ spawned'[k].pc # "read") =>
                  spawned'[k].pc \in {"check", "store"}
            /\ (spawned[k].pc = "store" /\ spawned'[k].pc # "store") =>
                  /\ spawned'[k].pc = "wait"
                  /\ ~running'[spawned[k].obj]
            /\ (spawned[k].pc = "wait" /\ spawned'[k].pc # "wait") =>
                  /\ spawned'[k].pc = "done"
                  /\ \/ ptyLog' = ptyLog
                     \/ /\ ptyLog'[Len(ptyLog')].type = "pty-exit"
                        /\ ptyLog'[Len(ptyLog')].by = k]_vars
    /\ [][\A o \in Objs :
            (~running[o] /\ running'[o]) =>
                /\ Len(spawned') = Len(spawned) + 1
                /\ spawned'[Len(spawned')].obj = o]_vars
    /\ [](\A id \in SessionIds :
            sessions[id] # 0 =>
                is_session_running(State, id).val = running[sessions[id]])

\* a reader emitted output, its loop ended, it cleared the flag, wait()
\* returned the status of its child and the exit event went out; the session
\* is still registered and is_running reports false
C26_Witness ==
    \E k \in Spawns :
        /\ spawned[k].pc = "done"
        /\ spawned[k].child = "exited"
        /\ sessions[spawned[k].session_id] = spawned[k].obj
        /\ ~is_session_running(State, spawned[k].session_id).val
        /\ Len(ptyLog) = 2
        /\ ptyLog[1].type = "pty-output" /\ ptyLog[1].by = k
        /\ ptyLog[2].type = "pty-exit" /\ ptyLog[2].by = k
        /\ ptyLog[2].exit_code = 0

\* ---------------------------------------------------------------- C29
\* C29: of the agent_send_message calls that run at the same time, at most
\* one is past the test of the streaming flag, that is, is accepted and goes
\* on to write its text and to emit message_start.
C29_OneSendAccepted ==
    Cardinality({t \in Threads :
        /\ tasks[t].op = "agent_send_message"
        /\ tasks[t].pc \in {"set_streaming", "take_output", "write_to_session",
                            "emit"}}) <= 1

\* ---------------------------------------------------------------- C30
\* C30: whenever no thread is inside an agent command, the streaming flag is
\* true only if an AgentSession is current.
C30_StreamingHasSession ==
    (\A t \in Threads : tasks[t] = Idle) => (streaming => current_session # None)


\* ---------------------------------------------------------------- C31
\* C31: when agent_send_message returns an error, whatever the error, the
\* streaming flag has the value it had before the call and no message_start
\* was emitted; a send_message after the failed one is then not rejected with
\* AlreadyStreaming on account of it.
C31_ErrorRestoresStreaming ==
    \A message \in Messages, emitted \in BOOLEAN :
        \A delivered \in Delivered(message \o <<NL>>) :
            LET r == agent_send_message(State, message, delivered, emitted)
            IN r.res # "Ok" =>
                  /\ r.st.streaming = streaming
                  /\ r.st.chatLog = chatLog
                  /\ ~streaming =>
                        agent_send_message(r.st, message, Len(message) + 2,
                                           TRUE).res # "AlreadyStreaming"

\* ---------------------------------------------------------------- C32
\* C32: when spawn_in_session returns an error on a session that was not
\* running, the session's running flag is false after the call and no child
\* was added to the session; and at every moment each child attached to a
\* session was started together with a reader thread.
C32_FailedSpawnNotRunning ==
    /\ \A id \in PtyIds, outcome \in SpawnOutcomes :
          LET o == sessions[id]
              r == spawn_in_session(State, id, outcome)
          IN (r.res # "Ok" /\ o # 0 /\ ~running[o]) =>
                /\ ~r.st.running[o]
                /\ r.st.spawned = spawned
    /\ \A k \in Spawns : spawned[k].pc # "none"

C34_NoNestedLocks ==
    /\ \A t \in Threads : Cardinality(Holds(t)) <= 1
    /\ \A t \in Threads : (lock = t) <=> ("sessions" \in Holds(t))
    /\ \A t \in Threads :
          Blocked(t) =>
             /\ Holds(t) = {}
             /\ \A u \in Threads :
                   Programs(calls[t].op)[calls[t].at].on \in Holds(u) => ~Blocked(u)
    /\ (\E t \in Threads : calls[t] # Idle) =>
          \E t \in Threads : calls[t] # Idle /\ ~Blocked(t)

\* a disconnect holds the registry lock (inside remove_session) while a
\* connect on another thread waits for it at spawn_in_session
C34_Witness ==
    \E t \in Threads, u \in Threads :
        /\ calls[t] # Idle /\ calls[u] # Idle
        /\ calls[t].op = "agent_disconnect"
        /\ calls[t].at = 6
        /\ Holds(t) = {"sessions"}
        /\ calls[u].op = "agent_connect"
        /\ calls[u].at = 3
        /\ Blocked(u)

\* ---------------------------------------------------------------- C35
\* C35: an agent_connect that returns Ok returns an AgentSession with
\* connected = true whose id is a key of the registry and whose PTY session
\* has its running flag true and a child with a reader started by this call;
\* that AgentSession is the current one, and one agent-status event with
\* connected = true and that id was appended.  The session is stored before
\* the emit: a connect whose emit fails returns the error with its session
\* already current and no event appended.
C35_ConnectOk ==
    \A agent_type \in AgentType, cwd \in Cwds, millis \in Times, env \in ConnectEnvs :
        LET r == agent_connect(State, agent_type, cwd, millis, env)
            id == AgentSessionId(agent_type, millis)
            o == r.st.sessions[id]
        IN /\ r.res = "Ok" =>
                /\ r.val.id = id
                /\ r.val.connected
                /\ r.val.agent_type = agent_type
                /\ r.val.cwd = cwd
                /\ o = Len(objs) + 1
                /\ r.st.objs[o].id = id
                /\ r.st.running[o]
                /\ Len(r.st.spawned) = Len(spawned) + 1
                /\ r.st.spawned[Len(r.st.spawned)] =
                      [obj |-> o, session_id |-> id, child |-> "alive", pc |-> "check"]
                /\ r.st.current_session = Some(r.val)
                /\ r.st.statusLog =
                      Append(statusLog, AgentStatusEvent(id, TRUE, "Connected to agent"))
           /\ r.res = "EmitFailed" =>
                /\ r.st.current_session # None
                /\ r.st.current_session[1].id = id
                /\ r.st.current_session[1].connected
                /\ r.st.sessions[id] # 0
                /\ r.st.statusLog = statusLog

\* after a successful connect: the current session is connected, its id is
\* registered to a running PTY session with a live child and a reader, and
\* the last status event says connected for that id
C35_Witness ==
    /\ current_session # None
    /\ current_session[1].connected
    /\ sessions[current_session[1].id] # 0
    /\ running[sessions[current_session[1].id]]
    /\ \E k \in Spawns : /\ spawned[k].obj = sessions[current_session[1].id]
                         /\ spawned[k].child = "alive"
                         /\ spawned[k].pc \in {"check", "read"}
    /\ statusLog # <<>>
    /\ statusLog[Len(statusLog)] =
          AgentStatusEvent(current_session[1].id, TRUE, "Connected to agent")

C37_DisconnectWithoutPty ==
    /\ \A id \in SessionIds :
          sessions[id] = 0 =>
             /\ stop_session(State, id) = Return(State, "Ok", Unit)
             /\ remove_session(State, id) = Return(State, "Ok", Unit)
    /\ (/\ current_session # None
        /\ \/ sessions[current_session[1].id] = 0
           \/ ~running[sessions[current_session[1].id]]) =>
          \A emitted \in BOOLEAN :
              LET id == current_session[1].id
                  r == agent_disconnect(State, emitted)
              IN /\ r.res = IF emitted THEN "Ok" ELSE "EmitFailed"
                 /\ r.st.sessions[id] = 0
                 /\ r.st.running = running
                 /\ r.st.current_session = None
                 /\ ~r.st.streaming
                 /\ r.st.statusLog =
                       IF emitted
                       THEN Append(statusLog,
                                AgentStatusEvent(id, FALSE, "Disconnected"))
                       ELSE statusLog

\* a disconnect from an agent whose reader had left its loop and cleared the
\* flag: nothing is current, the last status event says disconnected, the
\* PTY session of that id is out of the registry
C37_Witness ==
    /\ current_session = None
    /\ ~streaming
    /\ statusLog # <<>>
    /\ ~statusLog[Len(statusLog)].connected
    /\ sessions[statusLog[Len(statusLog)].session_id] = 0
    /\ \E k \in Spawns :
          /\ spawned[k].session_id = statusLog[Len(statusLog)].session_id
          /\ spawned[k].pc = "wait"
          /\ ~running[spawned[k].obj]

\* ---------------------------------------------------------------- C38
\* C38: the turns of two invocations of send_chat_message do not interleave:
\* at no time have two invocations each emitted their message_start and not
\* yet their message_stop (nor returned), so no event of one turn comes
\* between the message_start and the message_stop of another.
C38_TurnsDoNotInterleave ==
    \A i \in Invocations, j \in Invocations :
        i # j => (chat[i].pc = "done" \/ chat[j].pc = "done")

\* the snapshots of a plan in a directory
SnapshotsOf(dir, plan) ==
    {name \in dir : name[1] = get_snapshot_prefix(plan) /\ name[Len(name)] = "json"}

\* C39: when create_snapshot writes a snapshot and its rotation succeeds, at
\* most MAX_SNAPSHOTS snapshots of the plan remain, every snapshot that
\* remains has a greater timestamp than every one that was removed, and none
\* is removed when no more than MAX_SNAPSHOTS exist
C39_RotationKeepsNewest ==
    \A now \in Clock :
        LET r == create_snapshot(history_dir, PlanFile, FALSE, now, TRUE, TRUE)
            before == SnapshotsOf(history_dir, PlanFile) \cup {SnapshotName(PlanFile, now)}
            after == SnapshotsOf(r.dir, PlanFile)
        IN (should_create_snapshot(history_dir, PlanFile, now) /\ r.res = "Ok") =>
              /\ Cardinality(after) <= MAX_SNAPSHOTS
              /\ after \subseteq before
              /\ \A kept \in after, gone \in before \ after :
                    TimestampOf(kept) > TimestampOf(gone)
              /\ Cardinality(before) <= MAX_SNAPSHOTS => after = before

\* the elements of a list
Elems(list) == {list[i] : i \in 1..Len(list)}

\* C40: merge_layout removes every entry whose id is not among the plan's
\* nodes and names each once in removed_nodes; every phase or task node
\* without an entry gets one, is named once in added_nodes, and its entry is
\* the auto position computed from the entries present when it is added;
\* the entry of every node that had one is unchanged; nothing else is in the
\* result; and a plan whose ids are exactly the layout's ids adds and
\* removes nothing
C40_MergeLayout ==
    \A nodes \in PlanNodes, order \in KeyOrders :
        LET before == read_layout.layouts
            r == merge_layout(read_layout, nodes, "h1", order, 9100000)
            after == r.layout.layouts
            ids == {nodes[i].id : i \in 1..Len(nodes)}
            kept == DOMAIN before \cap ids
            missing == {nodes[i].id : i \in {j \in 1..Len(nodes) :
                           /\ nodes[j].node_type \in {"phase", "task"}
                           /\ nodes[j].id \notin DOMAIN before}}
            NodeOf(id) == CHOOSE n \in Elems(nodes) : n.id = id
            Earlier(j) == kept \cup {r.added_nodes[k] : k \in 1..(j - 1)}
        IN /\ Elems(r.removed_nodes) = DOMAIN before \ ids
           /\ Len(r.removed_nodes) = Cardinality(DOMAIN before \ ids)
           /\ Elems(r.added_nodes) = missing
           /\ Len(r.added_nodes) = Cardinality(missing)
           /\ DOMAIN after = kept \cup missing
           /\ \A id \in kept : after[id] = before[id]
           /\ \A j \in 1..Len(r.added_nodes) :
                 after[r.added_nodes[j]] =
                    calculate_auto_position(NodeOf(r.added_nodes[j]),
                                            [id \in Earlier(j) |-> after[id]], nodes)
           /\ ids = DOMAIN before =>
                 r.added_nodes = <<>> /\ r.removed_nodes = <<>> /\ after = before

\* a merge was made that dropped the entry of a node the plan no longer has,
\* placed a new task under its phase, and kept the phase where the user put it
C40_Witness ==
    /\ merge_result # None
    /\ merge_result[1].removed_nodes = <<"old">>
    /\ merge_result[1].added_nodes = <<"t1">>
    /\ DOMAIN merge_result[1].layout.layouts = {"p1", "t1"}
    /\ merge_result[1].layout.layouts["p1"] = NodeLayout(7, 9, 300, 60)
    /\ merge_result[1].layout.layouts["t1"] = NodeLayout(50, 159, 280, 80)

====
